---- MODULE Spec2Model ----
(***************************************************************************)
(* Bar-by-bar trade-execution simulator of the crypto trading bot:         *)
(*   - utils/risk.py            calculate_position_size_spot               *)
(*   - backtesting/engine.py    compute_sl_tp, Backtester.run              *)
(*   - execution/paper_broker.py PaperBroker.on_bar                        *)
(* The two drivers (batch Backtester.run, streaming PaperBroker.on_bar)    *)
(* are fed the same rows by one harness.  Python floats are modelled as    *)
(* exact rationals [n, d] in lowest terms; None and NaN are own values.    *)
(***************************************************************************)
EXTENDS Integers, Sequences, FiniteSets, TLC

\* ------------------------------------------------------------------------
\* Bounds of the model
\* ------------------------------------------------------------------------

\* Largest number of rows of the bar table fed to the drivers.
MaxBars == 2

\* Closed trades in a list handed to _calculate_metrics directly.
MaxTrades == 3

\* Combinations in the grid of a parameter sweep.
GridSize == 2

\* ------------------------------------------------------------------------
\* Float arithmetic, as exact rationals
\* ------------------------------------------------------------------------

RECURSIVE GCD(_, _)
GCD(a, b) == IF b = 0 THEN a ELSE GCD(b, a % b)

AbsInt(x) == IF x < 0 THEN -x ELSE x

\* The rational n/d in lowest terms with a denominator >= 0.
Rat(n, d) ==
    LET g == GCD(AbsInt(n), AbsInt(d))
        s == IF d < 0 THEN -1 ELSE 1
    IN  [n |-> s * (n \div g), d |-> s * (d \div g)]

Q(k) == [n |-> k, d |-> 1]

Zero == Q(0)
One == Q(1)

\* Sums and comparisons go through the denominators' gcd, to keep the
\* intermediate integers small.
Add(a, b) ==
    LET g == GCD(a.d, b.d)
    IN  Rat(a.n * (b.d \div g) + b.n * (a.d \div g), (a.d \div g) * b.d)
Neg(a) == [n |-> -a.n, d |-> a.d]
Sub(a, b) == Add(a, Neg(b))
Mul(a, b) ==
    LET g1 == GCD(AbsInt(a.n), b.d)
        g2 == GCD(AbsInt(b.n), a.d)
    IN  Rat((a.n \div g1) * (b.n \div g2), (a.d \div g2) * (b.d \div g1))
\* a / b for b # 0
Div(a, b) == Mul(a, Rat(b.d, b.n))
Le(a, b) ==
    LET g == GCD(a.d, b.d)
    IN  a.n * (b.d \div g) <= b.n * (a.d \div g)
Lt(a, b) == ~Le(b, a)
AbsR(a) == [n |-> AbsInt(a.n), d |-> a.d]

\* Python's None and float('nan').
None == [none |-> TRUE]
NaN == [nan |-> TRUE]

\* float('inf').  With the operators above x + inf = inf, x - inf = -inf
\* (-1/0), inf * m = inf for m > 0, x / inf = 0, and x < inf for every
\* finite x, as for floats.
Inf == [n |-> 1, d |-> 0]

\* No table given (table), no sorted copy made yet (data); a table given has
\* at least one row.
NoTable == <<>>

\* None for direction and reason in Backtester.run, which are strings otherwise.
NoDirection == "None"
NoReason == "None"

\* ------------------------------------------------------------------------
\* utils/risk.py
\* ------------------------------------------------------------------------

\* RiskManagementConfig(): the dataclass default.
RiskManagementConfig == [risk_pct |-> Rat(1, 100)]

\* Variant without abs(): a stop above the entry gives no size.  C9 fails on it.
calculate_position_size_spot_no_abs(capital, entry_price, stop_price, config) ==
    LET cfg == IF config = None THEN RiskManagementConfig ELSE config
    IN  IF Le(capital, Zero)
        THEN Zero
        ELSE LET risk_amount == Mul(capital, cfg.risk_pct)
                 risk_per_unit == Sub(entry_price, stop_price)
             IN  IF Le(risk_per_unit, Zero)
                 THEN Zero
                 ELSE Div(risk_amount, risk_per_unit)

\* Variant sizing by the entry price instead of the distance to the stop.
\* C10 fails on it.
calculate_position_size_spot_by_price(capital, entry_price, stop_price, config) ==
    LET cfg == IF config = None THEN RiskManagementConfig ELSE config
    IN  IF Le(capital, Zero)
        THEN Zero
        ELSE LET risk_amount == Mul(capital, cfg.risk_pct)
                 risk_per_unit == AbsR(Sub(entry_price, stop_price))
             IN  IF Le(risk_per_unit, Zero) \/ entry_price = Zero
                 THEN Zero
                 ELSE Div(risk_amount, AbsR(entry_price))

calculate_position_size_spot(capital, entry_price, stop_price, config) ==
    LET cfg == IF config = None THEN RiskManagementConfig ELSE config
    IN  IF Le(capital, Zero)
        THEN Zero
        ELSE LET risk_amount == Mul(capital, cfg.risk_pct)
                 risk_per_unit == AbsR(Sub(entry_price, stop_price))
             IN  IF Le(risk_per_unit, Zero)
                 THEN Zero
                 ELSE Div(risk_amount, risk_per_unit)

\* ------------------------------------------------------------------------
\* backtesting/engine.py: compute_sl_tp
\* ------------------------------------------------------------------------

\* The two ValueErrors compute_sl_tp raises, and the one of Backtester.run.
ErrNoAtr == "ValueError: no hay columna 'atr' valida"
ErrNoExitModel == "ValueError: ni ATR ni SL fijo configurados"
ErrMissingCols == "ValueError: faltan columnas necesarias"

Raises(r) == "raised" \in DOMAIN r

\* Variant giving a short the levels of a long.  C11 fails on it.
compute_sl_tp_as_long(cfg, side, entry_price, atr) ==
    IF cfg.atr_mult_sl # None /\ cfg.atr_mult_tp # None
    THEN IF atr = None \/ atr = NaN
         THEN [raised |-> ErrNoAtr]
         ELSE [sl_price |-> Sub(entry_price, Mul(atr, cfg.atr_mult_sl)),
               tp_price |-> Add(entry_price, Mul(atr, cfg.atr_mult_tp))]
    ELSE IF cfg.sl_pct = None \/ cfg.tp_rr = None
         THEN [raised |-> ErrNoExitModel]
         ELSE [sl_price |-> Mul(entry_price, Sub(One, cfg.sl_pct)),
               tp_price |-> Mul(entry_price, Add(One, Mul(cfg.sl_pct, cfg.tp_rr)))]

\* Variant falling back on the defaults of BacktestConfig (sl_pct 0.01,
\* tp_rr 2.0) instead of raising when the fixed model is half set.  C13 fails
\* on it.
compute_sl_tp_defaults(cfg, side, entry_price, atr) ==
    IF cfg.atr_mult_sl # None /\ cfg.atr_mult_tp # None
    THEN IF atr = None \/ atr = NaN
         THEN [raised |-> ErrNoAtr]
         ELSE IF side = "long"
              THEN [sl_price |-> Sub(entry_price, Mul(atr, cfg.atr_mult_sl)),
                    tp_price |-> Add(entry_price, Mul(atr, cfg.atr_mult_tp))]
              ELSE [sl_price |-> Add(entry_price, Mul(atr, cfg.atr_mult_sl)),
                    tp_price |-> Sub(entry_price, Mul(atr, cfg.atr_mult_tp))]
    ELSE LET sl_pct == IF cfg.sl_pct = None THEN Rat(1, 100) ELSE cfg.sl_pct
             tp_rr == IF cfg.tp_rr = None THEN Q(2) ELSE cfg.tp_rr
         IN  IF side = "long"
             THEN [sl_price |-> Mul(entry_price, Sub(One, sl_pct)),
                   tp_price |-> Mul(entry_price, Add(One, Mul(sl_pct, tp_rr)))]
             ELSE [sl_price |-> Mul(entry_price, Add(One, sl_pct)),
                   tp_price |-> Mul(entry_price, Sub(One, Mul(sl_pct, tp_rr)))]

compute_sl_tp(cfg, side, entry_price, atr) ==
    IF cfg.atr_mult_sl # None /\ cfg.atr_mult_tp # None
    THEN IF atr = None \/ atr = NaN
         THEN [raised |-> ErrNoAtr]
         ELSE IF side = "long"
              THEN [sl_price |-> Sub(entry_price, Mul(atr, cfg.atr_mult_sl)),
                    tp_price |-> Add(entry_price, Mul(atr, cfg.atr_mult_tp))]
              ELSE [sl_price |-> Add(entry_price, Mul(atr, cfg.atr_mult_sl)),
                    tp_price |-> Sub(entry_price, Mul(atr, cfg.atr_mult_tp))]
    ELSE IF cfg.sl_pct = None \/ cfg.tp_rr = None
         THEN [raised |-> ErrNoExitModel]
         ELSE IF side = "long"
              THEN [sl_price |-> Mul(entry_price, Sub(One, cfg.sl_pct)),
                    tp_price |-> Mul(entry_price, Add(One, Mul(cfg.sl_pct, cfg.tp_rr)))]
              ELSE [sl_price |-> Mul(entry_price, Add(One, cfg.sl_pct)),
                    tp_price |-> Mul(entry_price, Sub(One, Mul(cfg.sl_pct, cfg.tp_rr)))]

\* ------------------------------------------------------------------------
\* Inputs the harness draws: configurations, cost models, rows
\* ------------------------------------------------------------------------

\* BacktestConfig with the fixed-percent exit model (sl_pct and tp_rr set).
FixedPercent(fee, short) ==
    [initial_capital |-> Q(1000), sl_pct |-> Rat(1, 10), tp_rr |-> Q(2),
     fee_pct |-> fee, allow_short |-> short,
     atr_window |-> None, atr_mult_sl |-> None, atr_mult_tp |-> None]

\* BacktestConfig with the ATR exit model; sl_pct and tp_rr keep their defaults.
AtrBased(fee, short) ==
    [initial_capital |-> Q(1000), sl_pct |-> Rat(1, 100), tp_rr |-> Q(2),
     fee_pct |-> fee, allow_short |-> short,
     atr_window |-> Q(14), atr_mult_sl |-> Q(1), atr_mult_tp |-> Q(2)]

\* Neither exit model set.
NoExitModel ==
    [FixedPercent(Zero, TRUE) EXCEPT !.sl_pct = None]

\* atr_mult_sl set, atr_mult_tp left None, sl_pct and tp_rr set.
HalfAtr ==
    [FixedPercent(Zero, TRUE) EXCEPT !.atr_window = Q(14), !.atr_mult_sl = Q(1)]

FeePcts == {Zero, Rat(1, 10)}

RiskConfigs == {[risk_pct |-> Rat(1, 10)]}

RequiredCols == {"timestamp", "open", "high", "low", "close", "signal"}

\* What the harness builds the two drivers with and the columns of its table:
\* every fee and allow_short with the fixed-percent model, the ATR model with
\* and without an 'atr' column and with slippage and spread, the two
\* configurations with an exit model half set, a table lacking one of the
\* required columns; and the fixed-percent model with slippage, spread, and
\* both.
Setup(cfg, slip, spread, cols) ==
    [backtest_config |-> cfg, slippage_pct |-> slip, spread_pct |-> spread,
     columns |-> cols]

Setups ==
    {Setup(FixedPercent(fee, short), Zero, Zero, RequiredCols) :
        fee \in FeePcts, short \in BOOLEAN}
    \cup {Setup(AtrBased(Zero, TRUE), Zero, Zero, cols) :
        cols \in {RequiredCols, RequiredCols \cup {"atr"}}}
    \cup {Setup(AtrBased(Zero, TRUE), Rat(1, 10), Rat(1, 5), RequiredCols \cup {"atr"})}
    \cup {Setup(cfg, Zero, Zero, RequiredCols) : cfg \in {NoExitModel, HalfAtr}}
    \cup {Setup(FixedPercent(Zero, TRUE), Zero, Zero, RequiredCols \ {c}) :
        c \in RequiredCols}
    \cup {Setup(FixedPercent(Zero, TRUE), sc[1], sc[2], RequiredCols) :
        sc \in {<<Rat(1, 10), Zero>>, <<Zero, Rat(1, 5)>>, <<Rat(1, 10), Rat(1, 5)>>}}

\* (high, low, close) of a bar.  Entered at close = 100 with neither slippage
\* nor spread, a long has its stop at 90 and its target at 120, a short its
\* stop at 110 and its target at 80: the shapes hit neither, one of them
\* (exactly, or beyond), or both.  The last two close away from 100 and reach
\* the levels of an entry moved by slippage or spread (long 110: 99 and 132).
BarShapes ==
    {<<109, 91, 100>>, <<120, 91, 100>>, <<109, 80, 100>>, <<110, 90, 100>>,
     <<130, 70, 100>>, <<135, 100, 120>>, <<98, 70, 80>>}

Signals == {-1, 0, 1}

\* The 'atr' readings of a row: none without the column, else 10, or one of
\* NaN, 0 (a flat market) and inf.
AtrValues(cols) == IF "atr" \in cols THEN {Q(10)} ELSE {None}
AtrEdgeValues(cols) == IF "atr" \in cols THEN {NaN, Zero, Inf} ELSE {}

\* The bar shapes that come with the readings NaN, 0 and inf: one hitting no
\* level, one hitting both.
AtrEdgeShapes == {<<109, 91, 100>>, <<130, 70, 100>>}

Rows(ts, cols) ==
    {[timestamp |-> ts, high |-> Q(sh[1]), low |-> Q(sh[2]), close |-> Q(sh[3]),
      signal |-> sig, atr |-> a] :
        sh \in BarShapes, sig \in Signals, a \in AtrValues(cols)}
    \cup
    {[timestamp |-> ts, high |-> Q(sh[1]), low |-> Q(sh[2]), close |-> Q(sh[3]),
      signal |-> sig, atr |-> a] :
        sh \in AtrEdgeShapes, sig \in Signals, a \in AtrEdgeValues(cols)}

\* ------------------------------------------------------------------------
\* State
\* ------------------------------------------------------------------------

VARIABLES
    backtest_config,  \* BacktestConfig both drivers are built with
    risk_config,      \* RiskManagementConfig both drivers are built with
    slippage_pct,     \* PaperBroker.slippage_pct
    spread_pct,       \* PaperBroker.spread_pct
    columns,          \* df.columns of the bar table
    n,                \* rows of the table read so far
    row,              \* the row read last (data.iloc[n-1]), None before
    signals,          \* the signal column of the rows read so far
    bt_pc,            \* Backtester.run: "init", "loop", "raised", "returned"
    bt,               \* Backtester.run's locals
    result,           \* what run returned, or [raised |-> the error it raised];
                      \* None before
    pb_pc,            \* PaperBroker: "ready", "raised"; "off" when the harness
                      \* does not feed it (a table lacking a required column)
    pb,               \* PaperBroker's fields (state and equity lists)
    pb_n,             \* on_bar calls made by the harness
    pb_error,         \* the error an on_bar call raised, None before
    sizer,            \* a direct call of calculate_position_size_spot: its
                      \* arguments and its result; None while the drivers run
    table,            \* a bar table given whole, in the caller's order, to
                      \* run and row by row to on_bar; NoTable when the rows
                      \* are read one at a time in timestamp order
    data,             \* run's sorted copy of table, NoTable before
    metrics_call,     \* a direct call of _calculate_metrics: its arguments and
                      \* its result; None while the drivers run
    sweep             \* a parameter sweep: the grid, the bar table, the
                      \* evaluation of each combination and the rows
                      \* the main process has collected; None otherwise

vars == <<backtest_config, risk_config, slippage_pct, spread_pct, columns,
          n, row, signals, bt_pc, bt, result, pb_pc, pb, pb_n, pb_error, sizer, table, data,
          metrics_call, sweep>>

config_vars == <<backtest_config, risk_config, slippage_pct, spread_pct, columns>>

\* PaperBroker.symbol
Symbol == "BTC/USDT"

Last(s) == s[Len(s)]

\* ------------------------------------------------------------------------
\* backtesting/engine.py: Backtester.run
\* ------------------------------------------------------------------------

\* required_cols.issubset(df.columns)
\* Variant asking only for the columns the loop reads.  C14 fails on it.
has_required_cols_read(cols) == (RequiredCols \ {"open"}) \subseteq cols

has_required_cols(cols) == RequiredCols \subseteq cols

\* The locals of run before the loop: capital, the lists, open_trade, and i,
\* the number of rows the loop has taken.
run_locals(cfg) ==
    [capital |-> cfg.initial_capital,
     equity_list |-> <<>>, equity_times |-> <<>>,
     trades |-> <<>>, open_trade |-> None,
     reason |-> NoReason, i |-> 0]

\* atr_value of the row: None unless the row has an 'atr' entry.
run_atr_value(r, cols) == IF "atr" \in cols THEN r.atr ELSE None

\* hit_sl and hit_tp of the open trade on a bar.
hit_sl(direction, stop_price, high, low) ==
    IF direction = "long" THEN Le(low, stop_price) ELSE Le(stop_price, high)

\* Variant with strict comparisons: a bar that only touches the target does
\* not close.  C4 fails on it.
hit_tp_strict(direction, tp_price, high, low) ==
    IF direction = "long" THEN Lt(tp_price, high) ELSE Lt(low, tp_price)

hit_tp(direction, tp_price, high, low) ==
    IF direction = "long" THEN Le(tp_price, high) ELSE Le(low, tp_price)

\* reason: the stop first, then the target ("Conservador: primero SL, luego TP").
\* Variant looking at the target first.  C3 fails on it.
exit_reason_target_first(sl, tp) ==
    IF tp THEN "TP" ELSE IF sl THEN "SL" ELSE NoReason

exit_reason(sl, tp) == IF sl THEN "SL" ELSE IF tp THEN "TP" ELSE NoReason

\* 1) Update the open trade, if any.
run_update_open_trade(loc, r, cfg) ==
    IF loc.open_trade = None
    THEN loc
    ELSE LET ot == loc.open_trade
             reason == exit_reason(hit_sl(ot.direction, ot.stop_price, r.high, r.low),
                                   hit_tp(ot.direction, ot.tp_price, r.high, r.low))
             exit_price == IF reason = "SL" THEN ot.stop_price
                           ELSE IF reason = "TP" THEN ot.tp_price ELSE None
         IN  IF exit_price = None
             THEN [loc EXCEPT !.reason = reason]
             ELSE LET pnl == IF ot.direction = "long"
                             THEN Mul(Sub(exit_price, ot.entry_price), ot.size)
                             ELSE Mul(Sub(ot.entry_price, exit_price), ot.size)
                      fee_exit == Mul(Mul(exit_price, ot.size), cfg.fee_pct)
                      pnl_after_fees == Sub(pnl, fee_exit)
                      closed == [ot EXCEPT
                                   !.exit_time = r.timestamp,
                                   !.exit_price = exit_price,
                                   !.pnl = pnl_after_fees,
                                   !.pnl_pct = Mul(Div(pnl_after_fees, cfg.initial_capital), Q(100))]
                  IN  [loc EXCEPT
                         !.capital = Add(@, pnl_after_fees),
                         !.trades = Append(@, closed),
                         !.open_trade = None,
                         !.reason = reason]

\* Variant sampling the equity only while no trade is open.  C7 fails on it.
run_record_equity_when_flat(loc, r) ==
    IF loc.open_trade = None
    THEN [loc EXCEPT !.equity_list = Append(@, loc.capital),
                     !.equity_times = Append(@, r.timestamp)]
    ELSE loc

\* Variant keeping only the latest equity sample.  C23 fails on it.
run_record_equity_latest_only(loc, r) ==
    [loc EXCEPT !.equity_list = <<loc.capital>>,
                !.equity_times = <<r.timestamp>>]

\* The equity sample of the bar, after the possible close.
run_record_equity(loc, r) ==
    [loc EXCEPT !.equity_list = Append(@, loc.capital),
                !.equity_times = Append(@, r.timestamp)]

\* A new entry is looked at only with no trade open and a signal.
\* Variant entering on any signal, a trade open or not.  C1 fails on it.
entry_allowed_while_open(open_trade, signal) == signal # 0

entry_allowed(open_trade, signal) == open_trade = None /\ signal # 0

\* Variant ignoring allow_short.  C8 fails on it.
entry_direction_ignoring_allow_short(signal, allow_short) ==
    IF signal = 1 THEN "long"
    ELSE IF signal = -1 THEN "short"
    ELSE NoDirection

\* direction of the entry a signal asks for.
entry_direction(signal, allow_short) ==
    IF signal = 1 THEN "long"
    ELSE IF signal = -1 /\ allow_short THEN "short"
    ELSE NoDirection

\* Variant opening the trade whenever size >= 0.  C16 fails on it.
run_new_entry_zero_size(loc, r, atr_value, cfg, rcfg) ==
    IF entry_allowed(loc.open_trade, r.signal)
    THEN LET direction == entry_direction(r.signal, cfg.allow_short)
         IN  IF direction = NoDirection
             THEN loc
             ELSE LET entry_price == r.close
                      sltp == compute_sl_tp(cfg, direction, entry_price, atr_value)
                  IN  IF Raises(sltp)
                      THEN [raised |-> sltp.raised, locals |-> loc]
                      ELSE LET size == calculate_position_size_spot(
                                           loc.capital, entry_price, sltp.sl_price, rcfg)
                               fee_entry == Mul(Mul(entry_price, size), cfg.fee_pct)
                           IN  IF Le(Zero, size)
                               THEN [loc EXCEPT
                                       !.capital = Sub(@, fee_entry),
                                       !.open_trade =
                                           [entry_time |-> r.timestamp, exit_time |-> None,
                                            direction |-> direction,
                                            entry_price |-> entry_price, exit_price |-> None,
                                            size |-> size,
                                            stop_price |-> sltp.sl_price,
                                            tp_price |-> sltp.tp_price,
                                            pnl |-> None, pnl_pct |-> None]]
                             ELSE loc
    ELSE loc

\* 2) A new entry on the bar's signal.  The result is the locals, or
\* [raised |-> error, locals |-> locals] when compute_sl_tp raises.
run_new_entry(loc, r, atr_value, cfg, rcfg) ==
    IF entry_allowed(loc.open_trade, r.signal)
    THEN LET direction == entry_direction(r.signal, cfg.allow_short)
         IN  IF direction = NoDirection
             THEN loc
             ELSE LET entry_price == r.close
                      sltp == compute_sl_tp(cfg, direction, entry_price, atr_value)
                  IN  IF Raises(sltp)
                      THEN [raised |-> sltp.raised, locals |-> loc]
                      ELSE LET size == calculate_position_size_spot(
                                           loc.capital, entry_price, sltp.sl_price, rcfg)
                               fee_entry == Mul(Mul(entry_price, size), cfg.fee_pct)
                           IN  IF Lt(Zero, size)
                               THEN [loc EXCEPT
                                       !.capital = Sub(@, fee_entry),
                                       !.open_trade =
                                           [entry_time |-> r.timestamp, exit_time |-> None,
                                            direction |-> direction,
                                            entry_price |-> entry_price, exit_price |-> None,
                                            size |-> size,
                                            stop_price |-> sltp.sl_price,
                                            tp_price |-> sltp.tp_price,
                                            pnl |-> None, pnl_pct |-> None]]
                             ELSE loc
    ELSE loc

\* Variant taking the equity sample after the entry.  C5 fails on it.
run_iteration_sample_last(loc, r, cols, cfg, rcfg) ==
    LET l1 == run_update_open_trade(loc, r, cfg)
        l2 == run_new_entry([l1 EXCEPT !.i = @ + 1], r, run_atr_value(r, cols), cfg, rcfg)
    IN  IF Raises(l2) THEN l2 ELSE run_record_equity(l2, r)

\* Variant looking at the entry before the close check, so that a position is
\* evaluated for exit on the bar that opened it.  C6 fails on it.
run_iteration_entry_first(loc, r, cols, cfg, rcfg) ==
    LET l1 == run_new_entry([loc EXCEPT !.i = @ + 1], r, run_atr_value(r, cols), cfg, rcfg)
    IN  IF Raises(l1) THEN l1
        ELSE run_record_equity(run_update_open_trade(l1, r, cfg), r)

\* One iteration of the loop over the rows: close check, equity sample, entry.
run_iteration(loc, r, cols, cfg, rcfg) ==
    LET l1 == run_update_open_trade(loc, r, cfg)
        l2 == run_record_equity(l1, r)
        l3 == run_new_entry([l2 EXCEPT !.i = @ + 1], r, run_atr_value(r, cols), cfg, rcfg)
    IN  l3

\* ------------------------------------------------------------------------
\* backtesting/engine.py: Backtester._calculate_metrics
\* ------------------------------------------------------------------------

\* Series.cummax: the running maximum of the samples.
RECURSIVE cummax(_)
cummax(values) ==
    IF Len(values) <= 1 THEN values
    ELSE LET front == cummax(SubSeq(values, 1, Len(values) - 1))
             top == front[Len(front)]
             v == values[Len(values)]
         IN  Append(front, IF Le(v, top) THEN top ELSE v)

\* Series.min of a series that is not empty.
RECURSIVE series_min(_)
series_min(values) ==
    IF Len(values) = 1 THEN values[1]
    ELSE LET m == series_min(SubSeq(values, 1, Len(values) - 1))
             v == values[Len(values)]
         IN  IF Le(m, v) THEN m ELSE v

\* ndarray.sum.
RECURSIVE array_sum(_)
array_sum(values) ==
    IF Len(values) = 0 THEN Zero
    ELSE Add(array_sum(SubSeq(values, 1, Len(values) - 1)), values[Len(values)])

\* pnl_array[pnl_array > 0] and pnl_array[pnl_array < 0].
wins_of(pnl_array) == SelectSeq(pnl_array, LAMBDA x : Lt(Zero, x))
losses_of(pnl_array) == SelectSeq(pnl_array, LAMBDA x : Lt(x, Zero))

\* The first sample is the initial capital and the running maximum is never
\* below it, so both divisors are positive.
total_return_pct(equity_values) ==
    IF Len(equity_values) = 0 THEN Zero
    ELSE Mul(Sub(Div(equity_values[Len(equity_values)], equity_values[1]), One), Q(100))

\* Variant measuring the distance from the running maximum down to the sample
\* (running_max - equity).  C21 fails on it.
max_drawdown_pct_from_peak(equity_values) ==
    IF Len(equity_values) > 0
    THEN LET running_max == cummax(equity_values)
             drawdown == [k \in 1..Len(equity_values) |->
                             Div(Sub(running_max[k], equity_values[k]), running_max[k])]
         IN  Mul(series_min(drawdown), Q(100))
    ELSE Zero

max_drawdown_pct(equity_values) ==
    IF Len(equity_values) > 0
    THEN LET running_max == cummax(equity_values)
             drawdown == [k \in 1..Len(equity_values) |->
                             Div(Sub(equity_values[k], running_max[k]), running_max[k])]
         IN  Mul(series_min(drawdown), Q(100))
    ELSE Zero

winrate_pct(pnl_array) ==
    IF Len(pnl_array) > 0
    THEN Mul(Rat(Len(wins_of(pnl_array)), Len(pnl_array)), Q(100))
    ELSE Zero

\* Variant dividing by gross_loss itself, without abs().  C20 fails on it.
profit_factor_no_abs(pnl_array) ==
    IF Len(pnl_array) > 0
    THEN LET wins == wins_of(pnl_array)
             losses == losses_of(pnl_array)
             gross_profit == IF Len(wins) > 0 THEN array_sum(wins) ELSE Zero
             gross_loss == IF Len(losses) > 0 THEN array_sum(losses) ELSE Zero
         IN  IF Lt(gross_loss, Zero)
             THEN Div(gross_profit, gross_loss)
             ELSE NaN
    ELSE Zero

profit_factor(pnl_array) ==
    IF Len(pnl_array) > 0
    THEN LET wins == wins_of(pnl_array)
             losses == losses_of(pnl_array)
             gross_profit == IF Len(wins) > 0 THEN array_sum(wins) ELSE Zero
             gross_loss == IF Len(losses) > 0 THEN array_sum(losses) ELSE Zero
         IN  IF Lt(gross_loss, Zero)
             THEN IF Lt(Zero, AbsR(gross_loss))
                  THEN Div(gross_profit, AbsR(gross_loss))
                  ELSE NaN
             ELSE NaN
    ELSE Zero

\* Variant storing in the result only the trades that moved the capital.  C28
\* fails on it.
calculate_metrics_nonzero_trades(trades, equity_curve) ==
    LET pnl_list == SelectSeq(trades, LAMBDA t : t.pnl # None)
        pnl_array == [k \in 1..Len(pnl_list) |-> pnl_list[k].pnl]
    IN  [trades |-> SelectSeq(trades, LAMBDA t : t.pnl # Zero),
         equity_curve |-> equity_curve,
         total_return_pct |-> total_return_pct(equity_curve.values),
         max_drawdown_pct |-> max_drawdown_pct(equity_curve.values),
         winrate_pct |-> winrate_pct(pnl_array),
         profit_factor |-> profit_factor(pnl_array),
         num_trades |-> Len(trades)]

\* The BacktestResult.
calculate_metrics(trades, equity_curve) ==
    LET pnl_list == SelectSeq(trades, LAMBDA t : t.pnl # None)
        pnl_array == [k \in 1..Len(pnl_list) |-> pnl_list[k].pnl]
    IN  [trades |-> trades,
         equity_curve |-> equity_curve,
         total_return_pct |-> total_return_pct(equity_curve.values),
         max_drawdown_pct |-> max_drawdown_pct(equity_curve.values),
         winrate_pct |-> winrate_pct(pnl_array),
         profit_factor |-> profit_factor(pnl_array),
         num_trades |-> Len(trades)]

\* The end of run: the equity curve and the metrics of the closed trades.  The
\* open trade, if any, is dropped with the locals.
\* Variant closing the trade still open at its entry price.  C17 fails on it.
run_result_force_close(loc) ==
    calculate_metrics(
        IF loc.open_trade = None THEN loc.trades
        ELSE Append(loc.trades,
                    [loc.open_trade EXCEPT !.exit_time = loc.i,
                                           !.exit_price = loc.open_trade.entry_price,
                                           !.pnl = Zero, !.pnl_pct = Zero]),
        [times |-> loc.equity_times, values |-> loc.equity_list])

run_result(loc) ==
    calculate_metrics(loc.trades, [times |-> loc.equity_times, values |-> loc.equity_list])

\* ------------------------------------------------------------------------
\* execution/paper_broker.py: PaperBroker
\* ------------------------------------------------------------------------

\* {}, dict.pop(key, None) and dict[key] = value
EmptyDict == [k \in {} |-> None]
\* PaperBroker.__init__: the account state and the equity lists.
PaperBroker_init(cfg) ==
    [capital |-> cfg.initial_capital,
     equity |-> cfg.initial_capital,
     open_positions |-> EmptyDict,
     history |-> <<>>,
     equity_times |-> <<>>,
     equity_values |-> <<>>]

DictPop(dict, key) == [k \in DOMAIN dict \ {key} |-> dict[k]]
DictSet(dict, key, value) ==
    [k \in DOMAIN dict \cup {key} |-> IF k = key THEN value ELSE dict[k]]

\* Slippage on the exit price, against the position.
exit_slippage(side, raw_exit_price, slip) ==
    IF Lt(Zero, slip)
    THEN IF side = "long"
         THEN Mul(raw_exit_price, Sub(One, slip))
         ELSE Mul(raw_exit_price, Add(One, slip))
    ELSE raw_exit_price

\* hit_sl, hit_tp and reason of the open position on a bar.
position_hit_sl(side, stop_price, high, low) ==
    IF side = "long" THEN Le(low, stop_price) ELSE Le(stop_price, high)

position_hit_tp(side, tp_price, high, low) ==
    IF side = "long" THEN Le(tp_price, high) ELSE Le(low, tp_price)

position_exit_reason(sl, tp) == IF sl THEN "SL" ELSE IF tp THEN "TP" ELSE ""

process_existing_position(self, ts, high, low, cfg, slip) ==
    IF Symbol \notin DOMAIN self.open_positions
    THEN self
    ELSE LET pos == self.open_positions[Symbol]
             reason == position_exit_reason(
                           position_hit_sl(pos.side, pos.stop_price, high, low),
                           position_hit_tp(pos.side, pos.tp_price, high, low))
             raw_exit_price == IF reason = "SL" THEN pos.stop_price
                               ELSE IF reason = "TP" THEN pos.tp_price ELSE None
         IN  IF raw_exit_price = None
             THEN self
             ELSE LET exit_price == exit_slippage(pos.side, raw_exit_price, slip)
                      pnl == IF pos.side = "long"
                             THEN Mul(Sub(exit_price, pos.entry_price), pos.size)
                             ELSE Mul(Sub(pos.entry_price, exit_price), pos.size)
                      fee_entry == Mul(Mul(pos.entry_price, pos.size), cfg.fee_pct)
                      fee_exit == Mul(Mul(exit_price, pos.size), cfg.fee_pct)
                      pnl_after_fees == Sub(Sub(pnl, fee_entry), fee_exit)
                      capital == Add(self.capital, pnl_after_fees)
                      trade_log ==
                          [symbol |-> Symbol, side |-> pos.side,
                           entry_time |-> pos.entry_time, exit_time |-> ts,
                           entry_price |-> pos.entry_price, exit_price |-> exit_price,
                           size |-> pos.size,
                           pnl |-> pnl_after_fees,
                           pnl_pct |-> Mul(Div(pnl_after_fees, cfg.initial_capital), Q(100)),
                           reason |-> reason]
                  IN  [self EXCEPT
                         !.capital = capital,
                         !.equity = capital,
                         !.history = Append(@, trade_log),
                         !.open_positions = DictPop(@, Symbol)]

\* Variant moving the entry by the whole spread instead of half of it.  C22
\* fails on it.
entry_price_effective_full_spread(side, close, slip, spread) ==
    LET p1 == IF Lt(Zero, spread)
              THEN IF side = "long"
                   THEN Mul(close, Add(One, spread))
                   ELSE Mul(close, Sub(One, spread))
              ELSE close
    IN  IF Lt(Zero, slip)
        THEN IF side = "long"
             THEN Mul(p1, Add(One, slip))
             ELSE Mul(p1, Sub(One, slip))
        ELSE p1

\* The effective entry price: half the spread, then the slippage, against the side.
entry_price_effective(side, close, slip, spread) ==
    LET half_spread == Div(spread, Q(2))
        p1 == IF Lt(Zero, spread)
              THEN IF side = "long"
                   THEN Mul(close, Add(One, half_spread))
                   ELSE Mul(close, Sub(One, half_spread))
              ELSE close
    IN  IF Lt(Zero, slip)
        THEN IF side = "long"
             THEN Mul(p1, Add(One, slip))
             ELSE Mul(p1, Sub(One, slip))
        ELSE p1

\* Variant reversing the open position on a signal for the other side.  C30
\* fails on it.
maybe_open_position_reversing(self, ts, close, signal, atr_value, cfg, rcfg, slip, spread) ==
    IF /\ Symbol \in DOMAIN self.open_positions
       /\ (signal = 1) = (self.open_positions[Symbol].side = "long")
    THEN self
    ELSE IF ~(signal = 1 \/ (signal = -1 /\ cfg.allow_short))
    THEN self
    ELSE LET side == IF signal = 1 THEN "long" ELSE "short"
             sltp == compute_sl_tp(cfg, side, close, atr_value)
             entry_price == entry_price_effective(side, close, slip, spread)
             sltp_eff == compute_sl_tp(cfg, side, entry_price, atr_value)
         IN  IF Raises(sltp)
             THEN [raised |-> sltp.raised, self |-> self]
             ELSE IF Raises(sltp_eff)
             THEN [raised |-> sltp_eff.raised, self |-> self]
             ELSE LET size == calculate_position_size_spot(
                                  self.capital, entry_price, sltp_eff.sl_price, rcfg)
                      fee_entry == Mul(Mul(entry_price, size), cfg.fee_pct)
                      capital == Sub(self.capital, fee_entry)
                      pos == [symbol |-> Symbol, side |-> side,
                              entry_time |-> ts, entry_price |-> entry_price,
                              size |-> size,
                              stop_price |-> sltp_eff.sl_price,
                              tp_price |-> sltp_eff.tp_price]
                  IN  IF Le(size, Zero)
                      THEN self
                      ELSE [self EXCEPT
                              !.capital = capital,
                              !.equity = capital,
                              !.open_positions = DictSet(@, Symbol, pos)]

\* The result is the broker, or [raised |-> error, self |-> broker] when
\* compute_sl_tp raises.
maybe_open_position(self, ts, close, signal, atr_value, cfg, rcfg, slip, spread) ==
    IF Symbol \in DOMAIN self.open_positions
    THEN self
    ELSE IF ~(signal = 1 \/ (signal = -1 /\ cfg.allow_short))
    THEN self
    ELSE LET side == IF signal = 1 THEN "long" ELSE "short"
             sltp == compute_sl_tp(cfg, side, close, atr_value)
             entry_price == entry_price_effective(side, close, slip, spread)
             sltp_eff == compute_sl_tp(cfg, side, entry_price, atr_value)
         IN  IF Raises(sltp)
             THEN [raised |-> sltp.raised, self |-> self]
             ELSE IF Raises(sltp_eff)
             THEN [raised |-> sltp_eff.raised, self |-> self]
             ELSE LET size == calculate_position_size_spot(
                                  self.capital, entry_price, sltp_eff.sl_price, rcfg)
                      fee_entry == Mul(Mul(entry_price, size), cfg.fee_pct)
                      capital == Sub(self.capital, fee_entry)
                      pos == [symbol |-> Symbol, side |-> side,
                              entry_time |-> ts, entry_price |-> entry_price,
                              size |-> size,
                              stop_price |-> sltp_eff.sl_price,
                              tp_price |-> sltp_eff.tp_price]
                  IN  IF Le(size, Zero)
                      THEN self
                      ELSE [self EXCEPT
                              !.capital = capital,
                              !.equity = capital,
                              !.open_positions = DictSet(@, Symbol, pos)]

\* on_bar(row, signal, atr_value): close check, equity sample, entry.
on_bar(self, r, signal, atr_value, cfg, rcfg, slip, spread) ==
    LET s1 == process_existing_position(self, r.timestamp, r.high, r.low, cfg, slip)
        s2 == [s1 EXCEPT !.equity_times = Append(@, r.timestamp),
                         !.equity_values = Append(@, s1.capital)]
    IN  IF signal # 0
        THEN maybe_open_position(s2, r.timestamp, r.close, signal, atr_value,
                                 cfg, rcfg, slip, spread)
        ELSE s2

\* ------------------------------------------------------------------------
\* The harness and the two drivers as a state machine
\* ------------------------------------------------------------------------

Init ==
    /\ \E su \in Setups :
          /\ backtest_config = su.backtest_config
          /\ slippage_pct = su.slippage_pct
          /\ spread_pct = su.spread_pct
          /\ columns = su.columns
    /\ risk_config \in RiskConfigs
    /\ n = 0
    /\ row = None
    /\ signals = <<>>
    /\ bt_pc = "init"
    /\ bt = None
    /\ result = None
    /\ pb_pc = IF RequiredCols \subseteq columns THEN "ready" ELSE "off"
    /\ pb = PaperBroker_init(backtest_config)
    /\ pb_n = 0
    /\ pb_error = None
    /\ table = NoTable
    /\ data = NoTable
    /\ metrics_call = None
    /\ sweep = None
    /\ sizer = None

\* Backtester.run up to the loop: the required columns, then the locals.  The
\* sorted copy of the table is read row by row, in timestamp order.
RunStart ==
    /\ bt_pc = "init"
    /\ IF has_required_cols(columns)
       THEN /\ bt' = run_locals(backtest_config)
            /\ bt_pc' = "loop"
            /\ result' = result
       ELSE /\ bt' = bt
            /\ bt_pc' = "raised"
            /\ result' = [raised |-> ErrMissingCols]
    /\ UNCHANGED <<config_vars, sweep, metrics_call, n, row, signals, pb_pc, pb, pb_n, pb_error, sizer, table, data>>

\* The next row of the table, once every running driver has taken the last.
NewBar ==
    /\ n < MaxBars
    /\ bt_pc \in {"loop", "raised"}
    /\ bt_pc = "loop" => bt.i = n
    /\ pb_pc = "ready" => pb_n = n
    /\ bt_pc = "loop" \/ pb_pc = "ready"
    /\ \E r \in Rows(n + 1, columns) :
          /\ row' = r
          /\ signals' = Append(signals, r.signal)
    /\ n' = n + 1
    /\ UNCHANGED <<config_vars, sweep, metrics_call, bt_pc, bt, result, pb_pc, pb, pb_n, pb_error, sizer, table, data>>

\* One iteration of the loop of Backtester.run.
RunBar ==
    /\ bt_pc = "loop"
    /\ bt.i < n
    /\ \E res \in {run_iteration(bt, row, columns, backtest_config, risk_config)} :
           IF Raises(res)
           THEN /\ bt' = res.locals
                /\ bt_pc' = "raised"
                /\ result' = [raised |-> res.raised]
           ELSE /\ bt' = res
                /\ bt_pc' = "loop"
                /\ result' = result
    /\ UNCHANGED <<config_vars, sweep, metrics_call, n, row, signals, pb_pc, pb, pb_n, pb_error, sizer, table, data>>

\* The table has no more rows: run builds the equity curve and returns
\* _calculate_metrics of the trades and the curve.
RunReturn ==
    /\ bt_pc = "loop"
    /\ bt.i = n
    /\ result' = run_result(bt)
    /\ bt_pc' = "returned"
    /\ UNCHANGED <<config_vars, sweep, metrics_call, n, row, signals, bt, pb_pc, pb, pb_n, pb_error, sizer, table, data>>

\* The harness hands the row to PaperBroker.on_bar.
OnBar ==
    /\ pb_pc = "ready"
    /\ pb_n < n
    /\ \E res \in {on_bar(pb, row, row.signal, run_atr_value(row, columns),
                         backtest_config, risk_config, slippage_pct, spread_pct)} :
           IF Raises(res)
           THEN /\ pb' = res.self
                /\ pb_pc' = "raised"
                /\ pb_error' = res.raised
           ELSE /\ pb' = res
                /\ pb_pc' = "ready"
                /\ pb_error' = pb_error
    /\ pb_n' = pb_n + 1
    /\ UNCHANGED <<config_vars, sweep, metrics_call, n, row, signals, bt_pc, bt, result, sizer, table, data>>

Next == RunStart \/ NewBar \/ RunBar \/ RunReturn \/ OnBar

Spec == Init /\ [][Next]_vars

\* ------------------------------------------------------------------------
\* The two drivers on a table given whole, in any order of timestamps
\* ------------------------------------------------------------------------

\* Rows of such a table: any timestamp, two bar shapes, signal 0 or 1.
TableRows ==
    {[timestamp |-> ts, high |-> Q(sh[1]), low |-> Q(sh[2]), close |-> Q(sh[3]),
      signal |-> sig, atr |-> None] :
        ts \in 1..MaxBars, sh \in {<<109, 91, 100>>, <<98, 70, 80>>}, sig \in {0, 1}}

\* Rows on which a long is entered at the close of 80 and any open long is
\* closed: a table of them closes one trade per row after the first.
ChurnRows ==
    {[timestamp |-> ts, high |-> Q(98), low |-> Q(70), close |-> Q(80),
      signal |-> 1, atr |-> None] : ts \in 1..(MaxBars + 1)}

\* The tables of up to MaxBars rows, and the tables of MaxBars + 1 churn rows.
Tables ==
    UNION {[1..len -> TableRows] : len \in 1..MaxBars}
    \cup [1..(MaxBars + 1) -> ChurnRows]

\* Variant that copies without sorting.  C15 as amended fails on it.
sort_values_unsorted(df) == {df}

\* df.sort_values("timestamp").reset_index(drop=True).copy(): the rows in
\* non-decreasing order of timestamp.  The default sort is not stable, so
\* rows of equal timestamp come in either order.
sort_values(df) ==
    LET idx == 1..Len(df)
        orders == {p \in [idx -> idx] :
                      /\ \A i, j \in idx : p[i] = p[j] => i = j
                      /\ \A i, j \in idx :
                            i < j => df[p[i]].timestamp <= df[p[j]].timestamp}
    IN  {[k \in idx |-> df[p[k]]] : p \in orders}

\* The caller's frame after df.sort_values("timestamp") with the sorted frame
\* as result.  Variant sorting in place (inplace=True).  C24 fails on it.
df_after_sort_values_inplace(df, sorted) == sorted

\* sort_values returns a new frame (inplace defaults to False) and leaves the
\* caller's as it was.
df_after_sort_values(df, sorted) == df

\* The fixed-percent model; on a table in strictly increasing order of
\* timestamp also the configuration with neither exit model set, on which
\* the first attempted entry raises.
InitTable ==
    /\ table \in Tables
    /\ backtest_config \in
          {FixedPercent(Zero, TRUE)}
          \cup (IF \A k \in 1..(Len(table) - 1) : table[k].timestamp < table[k + 1].timestamp
                THEN {NoExitModel} ELSE {})
    /\ risk_config \in RiskConfigs
    /\ slippage_pct = Zero
    /\ spread_pct = Zero
    /\ columns = RequiredCols
    /\ n = 0
    /\ row = None
    /\ signals = <<>>
    /\ bt_pc = "init"
    /\ bt = None
    /\ result = None
    /\ pb_pc = "ready"
    /\ pb = PaperBroker_init(backtest_config)
    /\ pb_n = 0
    /\ pb_error = None
    /\ sizer = None
    /\ data = NoTable
    /\ metrics_call = None
    /\ sweep = None

\* Backtester.run up to the loop, on the table.
RunStartTable ==
    /\ bt_pc = "init"
    /\ table # NoTable
    /\ IF has_required_cols(columns)
       THEN /\ data' \in sort_values(table)
            /\ table' = df_after_sort_values(table, data')
            /\ bt' = run_locals(backtest_config)
            /\ bt_pc' = "loop"
            /\ result' = result
       ELSE /\ data' = data
            /\ table' = table
            /\ bt' = bt
            /\ bt_pc' = "raised"
            /\ result' = [raised |-> ErrMissingCols]
    /\ UNCHANGED <<config_vars, sweep, metrics_call, n, row, signals, pb_pc, pb, pb_n, pb_error, sizer>>

\* One iteration of the loop, on data.iloc[i].
RunBarTable ==
    /\ bt_pc = "loop"
    /\ data # NoTable
    /\ bt.i < Len(data)
    /\ \E res \in {run_iteration(bt, data[bt.i + 1], columns, backtest_config, risk_config)} :
           IF Raises(res)
           THEN /\ bt' = res.locals
                /\ bt_pc' = "raised"
                /\ result' = [raised |-> res.raised]
           ELSE /\ bt' = res
                /\ bt_pc' = "loop"
                /\ result' = result
    /\ UNCHANGED <<config_vars, sweep, metrics_call, n, row, signals, pb_pc, pb, pb_n, pb_error, sizer, table, data>>

RunReturnTable ==
    /\ bt_pc = "loop"
    /\ data # NoTable
    /\ bt.i = Len(data)
    /\ result' = run_result(bt)
    /\ bt_pc' = "returned"
    /\ UNCHANGED <<config_vars, sweep, metrics_call, n, row, signals, bt, pb_pc, pb, pb_n, pb_error, sizer, table, data>>

\* The caller hands the rows of the table to on_bar in the table's order.
OnBarTable ==
    /\ pb_pc = "ready"
    /\ table # NoTable
    /\ pb_n < Len(table)
    /\ \E r \in {table[pb_n + 1]} :
       \E res \in {on_bar(pb, r, r.signal, run_atr_value(r, columns),
                          backtest_config, risk_config, slippage_pct, spread_pct)} :
           IF Raises(res)
           THEN /\ pb' = res.self
                /\ pb_pc' = "raised"
                /\ pb_error' = res.raised
           ELSE /\ pb' = res
                /\ pb_pc' = "ready"
                /\ pb_error' = pb_error
    /\ pb_n' = pb_n + 1
    /\ UNCHANGED <<config_vars, sweep, metrics_call, n, row, signals, bt_pc, bt, result, sizer, table, data>>

NextTable == RunStartTable \/ RunBarTable \/ RunReturnTable \/ OnBarTable

SpecTable == InitTable /\ [][NextTable]_vars

\* ------------------------------------------------------------------------
\* calculate_position_size_spot called on its own
\* ------------------------------------------------------------------------

SizerCapitals == {Q(-1000), Zero, Q(500), Q(1000)}
SizerPrices == {Q(99), Q(100), Q(101)}
SizerConfigs ==
    {None} \cup {[risk_pct |-> p] : p \in {Rat(1, 100), Rat(1, 10), Zero, Rat(-1, 100)}}

\* No driver runs; the arguments of one call are drawn.
InitSizer ==
    /\ backtest_config = FixedPercent(Zero, TRUE)
    /\ risk_config = RiskManagementConfig
    /\ slippage_pct = Zero
    /\ spread_pct = Zero
    /\ columns = RequiredCols
    /\ n = 0
    /\ row = None
    /\ signals = <<>>
    /\ bt_pc = "off"
    /\ bt = None
    /\ result = None
    /\ pb_pc = "off"
    /\ pb = PaperBroker_init(backtest_config)
    /\ pb_n = 0
    /\ pb_error = None
    /\ table = NoTable
    /\ data = NoTable
    /\ metrics_call = None
    /\ sweep = None
    /\ \E c \in SizerCapitals, e \in SizerPrices, st \in SizerPrices, cfg \in SizerConfigs :
          sizer = [capital |-> c, entry_price |-> e, stop_price |-> st,
                   config |-> cfg, size |-> None]

SizerCall ==
    /\ sizer # None
    /\ sizer.size = None
    /\ sizer' = [sizer EXCEPT !.size = calculate_position_size_spot(
                      sizer.capital, sizer.entry_price, sizer.stop_price, sizer.config)]
    /\ UNCHANGED <<config_vars, sweep, metrics_call, n, row, signals, bt_pc, bt, result, pb_pc, pb, pb_n, pb_error, table, data>>

SpecSizer == InitSizer /\ [][SizerCall]_vars

\* The drivers, or the sizer on its own.
SpecRisk == (Init \/ InitSizer) /\ [][Next \/ SizerCall]_vars

\* ------------------------------------------------------------------------
\* _calculate_metrics called on its own
\* ------------------------------------------------------------------------

\* The pnl of a closed trade: the loss of the whole starting capital, a loss,
\* break-even, a gain.
PnlValues == {Q(-1000), Q(-20), Q(-10), Zero, Q(10), Q(30)}

\* A closed trade with that pnl, entered on bar k and closed on bar k + 1.
ClosedTrade(k, pnl) ==
    [entry_time |-> k, exit_time |-> k + 1, direction |-> "long",
     entry_price |-> Q(100), exit_price |-> Add(Q(100), pnl), size |-> One,
     stop_price |-> Q(90), tp_price |-> Q(120),
     pnl |-> pnl, pnl_pct |-> Mul(Div(pnl, Q(1000)), Q(100))]

\* The equity samples of a run that closed these trades one bar after the
\* other from a capital of 1000, without fees.
RECURSIVE EquityAfter(_)
EquityAfter(pnls) ==
    IF Len(pnls) = 0 THEN <<Q(1000)>>
    ELSE LET front == EquityAfter(SubSeq(pnls, 1, Len(pnls) - 1))
         IN  Append(front, Add(front[Len(front)], pnls[Len(pnls)]))

PnlLists == UNION {[1..len -> PnlValues] : len \in 0..MaxTrades}

InitMetrics ==
    /\ backtest_config = FixedPercent(Zero, TRUE)
    /\ risk_config = RiskManagementConfig
    /\ slippage_pct = Zero
    /\ spread_pct = Zero
    /\ columns = RequiredCols
    /\ n = 0
    /\ row = None
    /\ signals = <<>>
    /\ bt_pc = "off"
    /\ bt = None
    /\ result = None
    /\ pb_pc = "off"
    /\ pb = PaperBroker_init(backtest_config)
    /\ pb_n = 0
    /\ pb_error = None
    /\ sizer = None
    /\ table = NoTable
    /\ data = NoTable
    /\ sweep = None
    /\ \E pnls \in PnlLists :
          metrics_call =
              [trades |-> [k \in 1..Len(pnls) |-> ClosedTrade(k, pnls[k])],
               equity_curve |-> [times |-> [k \in 1..(Len(pnls) + 1) |-> k],
                                 values |-> EquityAfter(pnls)],
               result |-> None, again |-> None]

\* _calculate_metrics(trades, equity_curve)
MetricsCall ==
    /\ metrics_call # None
    /\ metrics_call.result = None
    /\ metrics_call' = [metrics_call EXCEPT
                           !.result = calculate_metrics(metrics_call.trades,
                                                        metrics_call.equity_curve)]
    /\ UNCHANGED <<config_vars, sweep, n, row, signals, bt_pc, bt, result, pb_pc, pb, pb_n,
                   pb_error, sizer, table, data>>

\* _calculate_metrics(result.trades, result.equity_curve): the metrics once
\* more, from what the result stores.
MetricsRecompute ==
    /\ metrics_call # None
    /\ metrics_call.result # None
    /\ metrics_call.again = None
    /\ metrics_call' = [metrics_call EXCEPT
                           !.again = calculate_metrics(metrics_call.result.trades,
                                                       metrics_call.result.equity_curve)]
    /\ UNCHANGED <<config_vars, sweep, n, row, signals, bt_pc, bt, result, pb_pc, pb, pb_n,
                   pb_error, sizer, table, data>>

NextMetrics == MetricsCall \/ MetricsRecompute

SpecMetrics == InitMetrics /\ [][NextMetrics]_vars

\* ------------------------------------------------------------------------
\* optimization/optimize_supertrend.py: a parameter sweep over one bar table
\* ------------------------------------------------------------------------

\* config.settings.BACKTEST_CONFIG, with the model's capital and fee.
BACKTEST_CONFIG == FixedPercent(Rat(1, 10), TRUE)

\* A combination of the grid: the two parameters that reach the Backtester.
\* A tp_rr of None leaves the combination without an exit model.
Combos ==
    {[sl_pct |-> Rat(1, 10), tp_rr |-> Q(2)],
     [sl_pct |-> Rat(1, 5), tp_rr |-> Q(2)],
     [sl_pct |-> Rat(1, 10), tp_rr |-> None]}

\* min_trades of the sweep (30 in main), scaled to the model's tables.
MinTrades == 1

\* The grids of GridSize combinations, the same one several times included.
ParamGrids == [1..GridSize -> Combos]

\* The frames with signals the sweep works on: MaxBars rows in increasing
\* order of timestamp, two bar shapes, a long signal on every bar.
SweepTables ==
    {df \in [1..MaxBars -> {r \in TableRows : r.signal = 1}] :
        \A k \in 1..MaxBars : df[k].timestamp = k}

\* bt_cfg = replace(BACKTEST_CONFIG, sl_pct=..., tp_rr=..., atr_mult_sl=None,
\* atr_mult_tp=None, allow_short=True)
evaluate_bt_cfg(combo) ==
    [BACKTEST_CONFIG EXCEPT !.sl_pct = combo.sl_pct, !.tp_rr = combo.tp_rr,
                            !.atr_mult_sl = None, !.atr_mult_tp = None,
                            !.allow_short = TRUE]

\* What _evaluate_config returns for a BacktestResult: None under min_trades
\* trades, else the combination with the five metrics.
evaluate_return(combo, res) ==
    IF res.num_trades < MinTrades
    THEN None
    ELSE [sl_pct |-> combo.sl_pct, tp_rr |-> combo.tp_rr,
          num_trades |-> res.num_trades,
          total_return_pct |-> res.total_return_pct,
          max_drawdown_pct |-> res.max_drawdown_pct,
          winrate_pct |-> res.winrate_pct,
          profit_factor |-> res.profit_factor]

\* Variant in which the calls of run share their locals (capital, lists and
\* open trade held outside the call): the call evaluating combination k works
\* on the locals of the first call still in its loop.  C25 fails on it.
job_locals_shared(jobs, k) ==
    IF jobs[1].pc = "loop" THEN [jobs[1].loc EXCEPT !.i = jobs[k].loc.i]
    ELSE jobs[k].loc

\* Variant in which the capital outlives the call (kept on the instance): a
\* call starting after the previous combination has returned starts from the
\* capital that one ended with.  C27 fails on it.
job_locals_carry_capital(jobs, k) ==
    IF k > 1 /\ jobs[k].loc.i = 0 /\ jobs[k - 1].pc = "returned"
    THEN [jobs[k].loc EXCEPT !.capital = jobs[k - 1].loc.capital]
    ELSE jobs[k].loc

\* The locals of the call of run evaluating combination k: capital, the lists
\* and open_trade are local variables of that call.
job_locals(jobs, k) == jobs[k].loc

\* A task of the pool, not started yet.
QueuedJob == [pc |-> "queued", data |-> NoTable, loc |-> None,
              result |-> None, ret |-> None]

InitSweep ==
    /\ backtest_config = BACKTEST_CONFIG
    /\ risk_config \in RiskConfigs
    /\ slippage_pct = Zero
    /\ spread_pct = Zero
    /\ columns = RequiredCols
    /\ n = 0
    /\ row = None
    /\ signals = <<>>
    /\ bt_pc = "off"
    /\ bt = None
    /\ result = None
    /\ pb_pc = "off"
    /\ pb = PaperBroker_init(backtest_config)
    /\ pb_n = 0
    /\ pb_error = None
    /\ sizer = None
    /\ table = NoTable
    /\ data = NoTable
    /\ metrics_call = None
    /\ \E df \in SweepTables, grid \in ParamGrids :
          sweep = [df |-> df, param_grid |-> grid,
                   jobs |-> [k \in 1..Len(grid) |-> QueuedJob],
                   rows |-> <<>>, received |-> {}, main_pc |-> "collecting"]

\* What a step of the sweep leaves alone.
SweepFrame ==
    UNCHANGED <<config_vars, n, row, signals, bt_pc, bt, result, pb_pc, pb, pb_n,
                pb_error, sizer, table, data, metrics_call>>

\* A worker takes combination k: _evaluate_config up to the loop of run.
EvaluateStart(k) ==
    /\ sweep.main_pc = "collecting"
    /\ sweep.jobs[k].pc = "queued"
    /\ \E sorted \in sort_values(sweep.df) :
          sweep' = [sweep EXCEPT
                      !.jobs[k].pc = IF has_required_cols(columns) THEN "loop" ELSE "raised",
                      !.jobs[k].data = IF has_required_cols(columns) THEN sorted ELSE NoTable,
                      !.jobs[k].loc = run_locals(evaluate_bt_cfg(sweep.param_grid[k])),
                      !.jobs[k].result = IF has_required_cols(columns) THEN None
                                         ELSE [raised |-> ErrMissingCols]]
    /\ SweepFrame

\* One iteration of the loop of run for combination k.
EvaluateBar(k) ==
    /\ sweep.main_pc = "collecting"
    /\ sweep.jobs[k].pc = "loop"
    /\ sweep.jobs[k].loc.i < Len(sweep.jobs[k].data)
    /\ \E loc \in {job_locals(sweep.jobs, k)} :
       \E res \in {run_iteration(loc, sweep.jobs[k].data[loc.i + 1], columns,
                                 evaluate_bt_cfg(sweep.param_grid[k]), risk_config)} :
          IF Raises(res)
          THEN sweep' = [sweep EXCEPT !.jobs[k].pc = "raised",
                                      !.jobs[k].loc = res.locals,
                                      !.jobs[k].result = [raised |-> res.raised]]
          ELSE sweep' = [sweep EXCEPT !.jobs[k].loc = res]
    /\ SweepFrame

\* run returns its result and _evaluate_config its row, or None.
EvaluateReturn(k) ==
    /\ sweep.main_pc = "collecting"
    /\ sweep.jobs[k].pc = "loop"
    /\ sweep.jobs[k].loc.i = Len(sweep.jobs[k].data)
    /\ \E res \in {run_result(sweep.jobs[k].loc)} :
          sweep' = [sweep EXCEPT
                      !.jobs[k].pc = "returned",
                      !.jobs[k].result = res,
                      !.jobs[k].ret = evaluate_return(sweep.param_grid[k], res)]
    /\ SweepFrame

\* The main process takes from imap_unordered the outcome of a finished
\* task, in any order: a row is appended, None is dropped, and the exception
\* of a task that raised is raised again in the main process, out of the loop
\* and out of main, which ends the pool.
Collect(k) ==
    /\ sweep.main_pc = "collecting"
    /\ k \notin sweep.received
    /\ sweep.jobs[k].pc \in {"returned", "raised"}
    /\ IF sweep.jobs[k].pc = "raised"
       THEN sweep' = [sweep EXCEPT !.main_pc = "raised"]
       ELSE sweep' = [sweep EXCEPT
                        !.received = @ \cup {k},
                        !.rows = IF sweep.jobs[k].ret # None
                                 THEN Append(@, sweep.jobs[k].ret) ELSE @]
    /\ SweepFrame

\* Every outcome is in: main sorts the rows and writes them out.
SweepEnd ==
    /\ sweep.main_pc = "collecting"
    /\ sweep.received = DOMAIN sweep.param_grid
    /\ sweep' = [sweep EXCEPT !.main_pc = "done"]
    /\ SweepFrame

NextSweep ==
    \/ \E k \in 1..GridSize : EvaluateStart(k)
    \/ \E k \in 1..GridSize : EvaluateBar(k)
    \/ \E k \in 1..GridSize : EvaluateReturn(k)
    \/ \E k \in 1..GridSize : Collect(k)
    \/ SweepEnd

SpecSweep == InitSweep /\ [][NextSweep]_vars

\* ------------------------------------------------------------------------
\* Vocabulary of the properties
\* ------------------------------------------------------------------------

\* run has its locals (it passed the column check).
BtStarted == bt # None

\* This step is one iteration of the loop of run / one call of on_bar, on row.
RunBarStep == BtStarted /\ bt_pc = "loop" /\ bt'.i = bt.i + 1
OnBarStep == pb_n' = pb_n + 1

PbOpen == Symbol \in DOMAIN pb.open_positions
PbPos == pb.open_positions[Symbol]

\* Stop and target of a position hit by the bar, as the claims word it.
StopHit(direction, stop_price, bar) ==
    IF direction = "long" THEN Le(bar.low, stop_price) ELSE Le(stop_price, bar.high)
TargetHit(direction, tp_price, bar) ==
    IF direction = "long" THEN Le(tp_price, bar.high) ELSE Le(bar.low, tp_price)

NoCosts == slippage_pct = Zero /\ spread_pct = Zero

\* ------------------------------------------------------------------------
\* C1: in both drivers at most one position is open, and a position is
\* created only when none is open: whenever a step leaves a new position
\* open, either none was open before it or the one open before it was closed
\* (recorded as a trade) by that same step.
\* ------------------------------------------------------------------------
C1_OnePositionCreatedOnlyWhenFlat ==
    [][ /\ Cardinality(DOMAIN pb'.open_positions) <= 1
        /\ DOMAIN pb'.open_positions \subseteq {Symbol}
        /\ (RunBarStep /\ bt'.open_trade # None /\ bt'.open_trade # bt.open_trade)
              => \/ bt.open_trade = None
                 \/ /\ Len(bt'.trades) = Len(bt.trades) + 1
                    /\ Last(bt'.trades).entry_time = bt.open_trade.entry_time
                    /\ Last(bt'.trades).exit_time = row.timestamp
                    /\ bt'.open_trade.entry_time = row.timestamp
        /\ (OnBarStep /\ pb'.open_positions # pb.open_positions
                      /\ Symbol \in DOMAIN pb'.open_positions)
              => \/ ~PbOpen
                 \/ /\ Len(pb'.history) = Len(pb.history) + 1
                    /\ Last(pb'.history).entry_time = PbPos.entry_time
                    /\ Last(pb'.history).exit_time = row.timestamp
                    /\ pb'.open_positions[Symbol].entry_time = row.timestamp
      ]_vars

\* Both drivers hold a position entered on the bar that closed their previous one.
C1_Witness ==
    /\ BtStarted /\ bt.open_trade # None /\ Len(bt.trades) = 1
    /\ bt.open_trade.entry_time = Last(bt.trades).exit_time
    /\ PbOpen /\ Len(pb.history) = 1
    /\ PbPos.entry_time = Last(pb.history).exit_time

\* ------------------------------------------------------------------------
\* C2: with slippage_pct = 0 and spread_pct = 0 the streaming driver, fed the
\* same rows one at a time, has the same closed trades (times, prices, size,
\* reason, pnl) and the same equity samples as the batch driver, for every
\* fee_pct >= 0.
\* ------------------------------------------------------------------------
BtReasonOf(t) == IF t.exit_price = t.stop_price THEN "SL" ELSE "TP"

SameTrade(t, h) ==
    /\ t.entry_time = h.entry_time
    /\ t.exit_time = h.exit_time
    /\ t.direction = h.side
    /\ t.entry_price = h.entry_price
    /\ t.exit_price = h.exit_price
    /\ t.size = h.size
    /\ BtReasonOf(t) = h.reason
    /\ t.pnl = h.pnl

C2_StreamingEqualsBatch ==
    (NoCosts /\ BtStarted /\ bt.i = pb_n)
        => /\ pb.equity_values = bt.equity_list
           /\ pb.equity_times = bt.equity_times
           /\ Len(pb.history) = Len(bt.trades)
           /\ \A k \in 1..Len(bt.trades) : SameTrade(bt.trades[k], pb.history[k])

\* The same, for fee_pct = 0 only.
C2_ZeroFee ==
    backtest_config.fee_pct = Zero => C2_StreamingEqualsBatch

C2_ZeroFee_Witness ==
    /\ NoCosts /\ backtest_config.fee_pct = Zero
    /\ BtStarted /\ bt.i = pb_n /\ Len(bt.trades) = 1 /\ Len(pb.history) = 1

\* ------------------------------------------------------------------------
\* C3: when the stop and the target of the open position are both hit within
\* one bar, that bar closes the position with reason SL at the stop price
\* (in the streaming driver: the stop price moved by the exit slippage),
\* never TP.
\* ------------------------------------------------------------------------
C3_StopTakesPrecedence ==
    [][ /\ (/\ RunBarStep /\ bt.open_trade # None
            /\ StopHit(bt.open_trade.direction, bt.open_trade.stop_price, row)
            /\ TargetHit(bt.open_trade.direction, bt.open_trade.tp_price, row))
              => /\ Len(bt'.trades) = Len(bt.trades) + 1
                 /\ Last(bt'.trades).entry_time = bt.open_trade.entry_time
                 /\ Last(bt'.trades).exit_price = bt.open_trade.stop_price
                 /\ bt'.reason = "SL"
        /\ (/\ OnBarStep /\ PbOpen
            /\ StopHit(PbPos.side, PbPos.stop_price, row)
            /\ TargetHit(PbPos.side, PbPos.tp_price, row))
              => /\ Len(pb'.history) = Len(pb.history) + 1
                 /\ Last(pb'.history).entry_time = PbPos.entry_time
                 /\ Last(pb'.history).reason = "SL"
                 /\ Last(pb'.history).exit_price =
                        exit_slippage(PbPos.side, PbPos.stop_price, slippage_pct)
                 /\ NoCosts => Last(pb'.history).exit_price = PbPos.stop_price
      ]_vars

\* Both drivers closed a long on a bar that reached its stop and its target.
C3_Witness ==
    /\ BtStarted /\ Len(bt.trades) = 1 /\ bt.i = n
    /\ Last(bt.trades).direction = "long"
    /\ Last(bt.trades).exit_time = row.timestamp
    /\ Le(row.low, Last(bt.trades).stop_price)
    /\ Le(Last(bt.trades).tp_price, row.high)
    /\ bt.reason = "SL"
    /\ Len(pb.history) = 1 /\ pb_n = n
    /\ Last(pb.history).reason = "SL"
    /\ Last(pb.history).exit_time = row.timestamp

\* ------------------------------------------------------------------------
\* C4: in the batch driver an open long is closed on a bar if and only if
\* low <= stop_price or high >= target_price, an open short if and only if
\* high >= stop_price or low <= target_price; the exit is a target exit
\* exactly when the target is hit and the stop is not, and then has pnl > 0
\* when fee_pct = 0; the exit price is exactly the stop or the target level;
\* on any other bar the position stays open with unchanged fields.
\* ------------------------------------------------------------------------
C4_ExitIffStopOrTarget ==
    [][ (RunBarStep /\ bt.open_trade # None)
          => LET ot == bt.open_trade
                 sl == StopHit(ot.direction, ot.stop_price, row)
                 tp == TargetHit(ot.direction, ot.tp_price, row)
                 closed == Len(bt'.trades) = Len(bt.trades) + 1
             IN  /\ closed <=> (sl \/ tp)
                 /\ ~closed => /\ bt'.open_trade = ot
                               /\ bt'.trades = bt.trades
                               /\ bt'.capital = bt.capital
                 /\ closed =>
                      LET t == Last(bt'.trades)
                      IN  /\ SubSeq(bt'.trades, 1, Len(bt.trades)) = bt.trades
                          /\ bt'.open_trade # ot
                          /\ t.entry_time = ot.entry_time
                          /\ t.direction = ot.direction
                          /\ t.entry_price = ot.entry_price
                          /\ t.size = ot.size
                          /\ (bt'.reason = "TP") <=> (tp /\ ~sl)
                          /\ (bt'.reason = "SL") <=> sl
                          /\ bt'.reason = "TP" => t.exit_price = ot.tp_price
                          /\ bt'.reason = "SL" => t.exit_price = ot.stop_price
                          /\ (bt'.reason = "TP" /\ backtest_config.fee_pct = Zero)
                                => Lt(Zero, t.pnl)
      ]_vars

\* A long closed at its target, exactly reached, with the stop not hit, at no fee.
C4_Witness ==
    /\ BtStarted /\ bt_pc = "loop" /\ bt.i = n /\ Len(bt.trades) = 1
    /\ backtest_config.fee_pct = Zero
    /\ bt.reason = "TP"
    /\ Last(bt.trades).direction = "long"
    /\ Last(bt.trades).exit_time = row.timestamp
    /\ row.high = Last(bt.trades).tp_price
    /\ Lt(Last(bt.trades).stop_price, row.low)
    /\ Lt(Zero, Last(bt.trades).pnl)

\* ------------------------------------------------------------------------
\* C5: every bar is processed in the order exit check, equity sample, entry
\* check: the sample recorded for a bar is the capital after any exit on that
\* bar and before any entry on it, so the fee of an entry made on a bar is
\* not in that bar's sample and is in the next bar's.
\* ------------------------------------------------------------------------
EntryFee(price, size) == Mul(Mul(price, size), backtest_config.fee_pct)

C5_SampleAfterExitBeforeEntry ==
    [][ /\ RunBarStep
          => LET closed == Len(bt'.trades) = Len(bt.trades) + 1
                 entered == bt'.open_trade # None
                            /\ bt'.open_trade.entry_time = row.timestamp
                 after_exit == IF closed THEN Add(bt.capital, Last(bt'.trades).pnl)
                               ELSE bt.capital
             IN  /\ Len(bt'.equity_list) = Len(bt.equity_list) + 1
                 /\ Last(bt'.equity_list) = after_exit
                 /\ Last(bt'.equity_times) = row.timestamp
                 /\ bt'.capital =
                      IF entered
                      THEN Sub(after_exit,
                               EntryFee(bt'.open_trade.entry_price, bt'.open_trade.size))
                      ELSE after_exit
        /\ OnBarStep
          => LET closed == Len(pb'.history) = Len(pb.history) + 1
                 entered == Symbol \in DOMAIN pb'.open_positions
                            /\ pb'.open_positions[Symbol].entry_time = row.timestamp
                 after_exit == IF closed THEN Add(pb.capital, Last(pb'.history).pnl)
                               ELSE pb.capital
             IN  /\ Len(pb'.equity_values) = Len(pb.equity_values) + 1
                 /\ Last(pb'.equity_values) = after_exit
                 /\ Last(pb'.equity_times) = row.timestamp
                 /\ pb'.capital =
                      IF entered
                      THEN Sub(after_exit,
                               EntryFee(pb'.open_positions[Symbol].entry_price,
                                        pb'.open_positions[Symbol].size))
                      ELSE after_exit
      ]_vars

\* An entry at a fee on bar 1, no exit on bar 2: the fee is missing from the
\* first sample and shows in the second, in both drivers.
C5_Witness ==
    /\ BtStarted /\ bt.i = 2 /\ pb_n = 2
    /\ Lt(Zero, backtest_config.fee_pct)
    /\ bt.open_trade # None /\ bt.open_trade.entry_time = 1 /\ bt.trades = <<>>
    /\ bt.equity_list[1] = backtest_config.initial_capital
    /\ Lt(bt.equity_list[2], bt.equity_list[1])
    /\ PbOpen /\ PbPos.entry_time = 1 /\ pb.history = <<>>
    /\ pb.equity_values[1] = backtest_config.initial_capital
    /\ Lt(pb.equity_values[2], pb.equity_values[1])

C7_OneSamplePerBar ==
    /\ BtStarted => /\ Len(bt.equity_list) = bt.i
                    /\ bt.equity_times = [k \in 1..bt.i |-> k]
    /\ bt_pc = "returned" => /\ Len(result.equity_curve.values) = n
                             /\ Len(result.equity_curve.times) = n
    /\ Len(pb.equity_values) = pb_n
    /\ pb.equity_times = [k \in 1..pb_n |-> k]

\* Two bars, an entry on the first and an exit on the second, two samples.
C7_Witness ==
    /\ bt_pc = "returned" /\ n = 2 /\ Len(result.trades) = 1
    /\ Len(result.equity_curve.values) = 2
    /\ pb_n = 2 /\ Len(pb.history) = 1 /\ Len(pb.equity_values) = 2

\* ------------------------------------------------------------------------
\* C8: with allow_short = false no short position is ever opened, and a run
\* whose every bar carries signal -1 opens and closes no trade and leaves
\* the capital at initial_capital.
\* ------------------------------------------------------------------------
AllShortSignals == \A k \in 1..Len(signals) : signals[k] = -1

C8_NoShortWhenDisallowed ==
    ~backtest_config.allow_short
        => /\ BtStarted =>
                /\ bt.open_trade # None => bt.open_trade.direction = "long"
                /\ \A k \in 1..Len(bt.trades) : bt.trades[k].direction = "long"
                /\ AllShortSignals => /\ bt.open_trade = None
                                      /\ bt.trades = <<>>
                                      /\ bt.capital = backtest_config.initial_capital
           /\ PbOpen => PbPos.side = "long"
           /\ \A k \in 1..Len(pb.history) : pb.history[k].side = "long"
           /\ AllShortSignals => /\ ~PbOpen
                                 /\ pb.history = <<>>
                                 /\ pb.capital = backtest_config.initial_capital

\* Two bars with signal -1 processed by both drivers with shorts disallowed.
C8_Witness ==
    /\ ~backtest_config.allow_short
    /\ Len(signals) = 2 /\ AllShortSignals
    /\ bt_pc = "returned" /\ result.num_trades = 0
    /\ pb_n = 2 /\ pb.history = <<>>

\* ------------------------------------------------------------------------
\* C9: calculate_position_size_spot returns a value >= 0 for every input,
\* and 0 if and only if capital <= 0 or |entry_price - stop_price| <= 0.
\* ------------------------------------------------------------------------
SizerReturned == sizer # None /\ sizer.size # None

SizerRiskPct ==
    IF sizer.config = None THEN RiskManagementConfig.risk_pct ELSE sizer.config.risk_pct

SizerRiskPerUnit == AbsR(Sub(sizer.entry_price, sizer.stop_price))

SizerZeroCase == Le(sizer.capital, Zero) \/ Le(SizerRiskPerUnit, Zero)

\* The claim as stated, for every input.
C9_SizeNonNegativeZeroIff ==
    SizerReturned => /\ Le(Zero, sizer.size)
                     /\ (sizer.size = Zero) <=> SizerZeroCase

\* C9 restricted to the inputs with risk_pct > 0, where it holds.
C9_SizeNonNegativeZeroIff_PositiveRisk ==
    (SizerReturned /\ Lt(Zero, SizerRiskPct))
        => /\ Le(Zero, sizer.size)
           /\ (sizer.size = Zero) <=> SizerZeroCase

\* A call with capital > 0, risk_pct > 0 and the stop above the entry
\* returned a size > 0.
C9_Witness ==
    /\ SizerReturned /\ Lt(Zero, SizerRiskPct)
    /\ Lt(Zero, sizer.capital) /\ Lt(sizer.entry_price, sizer.stop_price)
    /\ Lt(Zero, sizer.size)

\* ------------------------------------------------------------------------
\* C10: with capital > 0 and entry_price # stop_price the sizer returns
\* capital * risk_pct / |entry_price - stop_price|, so that
\* size * |entry_price - stop_price| = capital * risk_pct (capital 1000,
\* entry 100, stop 99, risk_pct 0.01: size 10); and a stop-out with zero
\* fees and slippage loses exactly risk_pct of the capital at entry (the
\* equity sample of the entry bar).
\* ------------------------------------------------------------------------
RiskedAt(samples, entry_time) == Mul(samples[entry_time], risk_config.risk_pct)

C10_SizeRisksRiskPct ==
    /\ (SizerReturned /\ Lt(Zero, sizer.capital) /\ sizer.entry_price # sizer.stop_price)
          => /\ sizer.size = Div(Mul(sizer.capital, SizerRiskPct), SizerRiskPerUnit)
             /\ Mul(sizer.size, SizerRiskPerUnit) = Mul(sizer.capital, SizerRiskPct)
    /\ (/\ SizerReturned /\ sizer.capital = Q(1000) /\ sizer.entry_price = Q(100)
        /\ sizer.stop_price = Q(99) /\ SizerRiskPct = Rat(1, 100))
          => sizer.size = Q(10)
    /\ BtStarted =>
          /\ bt.open_trade # None =>
                Mul(bt.open_trade.size,
                    AbsR(Sub(bt.open_trade.entry_price, bt.open_trade.stop_price)))
                  = RiskedAt(bt.equity_list, bt.open_trade.entry_time)
          /\ \A k \in 1..Len(bt.trades) :
                (backtest_config.fee_pct = Zero
                    /\ bt.trades[k].exit_price = bt.trades[k].stop_price)
                  => bt.trades[k].pnl
                        = Neg(RiskedAt(bt.equity_list, bt.trades[k].entry_time))
    /\ \A k \in 1..Len(pb.history) :
          (backtest_config.fee_pct = Zero /\ NoCosts /\ pb.history[k].reason = "SL")
            => pb.history[k].pnl
                  = Neg(RiskedAt(pb.equity_values, pb.history[k].entry_time))

\* Both drivers stopped out at no fee, slippage or spread, losing risk_pct of
\* the capital at entry.
C10_Witness ==
    /\ backtest_config.fee_pct = Zero /\ NoCosts
    /\ BtStarted /\ Len(bt.trades) = 1
    /\ Last(bt.trades).exit_price = Last(bt.trades).stop_price
    /\ Last(bt.trades).pnl = Neg(Mul(backtest_config.initial_capital, risk_config.risk_pct))
    /\ Len(pb.history) = 1 /\ Last(pb.history).reason = "SL"
    /\ Last(pb.history).pnl = Last(bt.trades).pnl

\* The sizer, called on its own with the numbers of the example, returned 10.
C10_WitnessSizer ==
    /\ SizerReturned /\ sizer.capital = Q(1000) /\ sizer.entry_price = Q(100)
    /\ sizer.stop_price = Q(99) /\ SizerRiskPct = Rat(1, 100)
    /\ sizer.size = Q(10)

\* ------------------------------------------------------------------------
\* C11: every position that is opened, in either driver and in either exit
\* mode, has stop_price < entry_price < tp_price when long and
\* tp_price < entry_price < stop_price when short, entry_price being the
\* recorded (effective) entry price.
\* ------------------------------------------------------------------------
LevelsOrdered(direction, entry_price, stop_price, tp_price) ==
    IF direction = "long"
    THEN Lt(stop_price, entry_price) /\ Lt(entry_price, tp_price)
    ELSE Lt(tp_price, entry_price) /\ Lt(entry_price, stop_price)

AtrMode == backtest_config.atr_mult_sl # None /\ backtest_config.atr_mult_tp # None

\* The 'atr' reading of the current row.
AtrReading == IF "atr" \in columns THEN row.atr ELSE None

\* On the current row the batch run reaches the entry: no trade is open once
\* the close check is done, and the signal asks for a side that is allowed.
BtFlatAfterCloseCheck ==
    \/ bt.open_trade = None
    \/ StopHit(bt.open_trade.direction, bt.open_trade.stop_price, row)
    \/ TargetHit(bt.open_trade.direction, bt.open_trade.tp_price, row)

SignalAsksEntry ==
    row.signal = 1 \/ (row.signal = -1 /\ backtest_config.allow_short)

\* The iteration raised the missing-volatility error, leaving no open trade
\* and the capital of the bar's equity sample.
BtFailedWithoutEntry(error) ==
    /\ bt_pc' = "raised"
    /\ result' = [raised |-> error]
    /\ bt'.open_trade = None
    /\ bt'.capital = Last(bt'.equity_list)
    /\ Len(bt'.trades) = Len(bt.trades) + (IF bt.open_trade = None THEN 0 ELSE 1)

\* The claim as stated: null, NaN and inf all fail the run.
C12_MissingVolatilityFailsRun ==
    [][(/\ RunBarStep /\ AtrMode /\ BtFlatAfterCloseCheck /\ SignalAsksEntry
        /\ AtrReading \in {None, NaN, Inf})
          => BtFailedWithoutEntry(ErrNoAtr)]_vars

\* C12 for the readings the code tests, None and NaN: these fail the run.
C12_NullOrNaNFailsRun ==
    [][(/\ RunBarStep /\ AtrMode /\ BtFlatAfterCloseCheck /\ SignalAsksEntry
        /\ AtrReading \in {None, NaN})
          => BtFailedWithoutEntry(ErrNoAtr)]_vars

\* The run failed on a NaN reading.
C12_WitnessNaN ==
    /\ AtrMode /\ bt_pc = "raised" /\ result = [raised |-> ErrNoAtr]
    /\ row # None /\ AtrReading = NaN

\* An inf reading: the entry is skipped and the run goes on.
C12_InfSkipsEntry ==
    [][(/\ RunBarStep /\ AtrMode /\ BtFlatAfterCloseCheck /\ SignalAsksEntry
        /\ AtrReading = Inf)
          => (bt_pc' = "loop" /\ bt'.open_trade = None /\ result' = result)]_vars

\* ------------------------------------------------------------------------
\* C13: a run whose configuration has neither exit model fully set (not both
\* atr_mult_sl and atr_mult_tp, and not both sl_pct and tp_rr) fails with the
\* invalid-configuration error, the error propagates to the caller, and no
\* position is opened under such a configuration.
\* ------------------------------------------------------------------------
InvalidExitModel ==
    /\ ~(backtest_config.atr_mult_sl # None /\ backtest_config.atr_mult_tp # None)
    /\ ~(backtest_config.sl_pct # None /\ backtest_config.tp_rr # None)

\* The claim as stated: under such a configuration run never returns a result.
C13_InvalidConfigFailsRun ==
    InvalidExitModel => bt_pc # "returned"

NoPositionEver ==
    /\ BtStarted => (bt.open_trade = None /\ bt.trades = <<>>)
    /\ ~PbOpen /\ pb.history = <<>>

\* C13 as amended: under such a configuration no position is ever opened; the
\* bar that attempts an entry (a signal asking for an allowed side) fails the
\* run, and the on_bar call, with the invalid-configuration error, which
\* reaches the caller; a bar that attempts none is processed without error.
C13_InvalidConfigFailsAtFirstEntry ==
    /\ [](InvalidExitModel => NoPositionEver)
    /\ [][(InvalidExitModel /\ RunBarStep) =>
             IF SignalAsksEntry
             THEN bt_pc' = "raised" /\ result' = [raised |-> ErrNoExitModel]
             ELSE bt_pc' = "loop" /\ result' = result]_vars
    /\ [][(InvalidExitModel /\ OnBarStep) =>
             IF SignalAsksEntry
             THEN pb_pc' = "raised" /\ pb_error' = ErrNoExitModel
             ELSE pb_pc' = "ready" /\ pb_error' = pb_error]_vars

\* Both drivers failed with the invalid-configuration error on a bar
\* asking for an entry.
C13_Witness ==
    /\ InvalidExitModel /\ row # None /\ SignalAsksEntry
    /\ bt_pc = "raised" /\ result = [raised |-> ErrNoExitModel]
    /\ pb_pc = "raised" /\ pb_error = ErrNoExitModel

\* A run over two bars that attempt no entry returned its result.
C13_WitnessNoEntry ==
    /\ InvalidExitModel /\ bt_pc = "returned" /\ n = 2
    /\ result.num_trades = 0 /\ Len(result.equity_curve.values) = 2

\* ------------------------------------------------------------------------
\* C14: if the bar table lacks any required field (timestamp, open, high,
\* low, close, signal) the batch run fails with an input error before any
\* bar is processed: no equity sample is recorded and no position is opened.
\* ------------------------------------------------------------------------
C14_MissingFieldFailsBeforeAnyBar ==
    ~(RequiredCols \subseteq columns) =>
        /\ bt_pc \in {"init", "raised"}
        /\ ~BtStarted
        /\ n = 0
        /\ bt_pc = "raised" => result = [raised |-> ErrMissingCols]
        /\ bt_pc = "init" => result = None

\* run raised on a table without its 'open' column.
C14_Witness ==
    /\ "open" \notin columns /\ bt_pc = "raised"
    /\ result = [raised |-> ErrMissingCols] /\ ~BtStarted

\* ------------------------------------------------------------------------
\* C15: if the timestamps of the input bars are not strictly increasing or
\* not unique, the run fails with InvalidInput before any bar is processed.
\* ------------------------------------------------------------------------
StrictlyIncreasing(times) == \A k \in 1..(Len(times) - 1) : times[k] < times[k + 1]
NonDecreasing(times) == \A k \in 1..(Len(times) - 1) : times[k] <= times[k + 1]
TimestampsOf(df) == [k \in 1..Len(df) |-> df[k].timestamp]

MalformedTable == table # NoTable /\ ~StrictlyIncreasing(TimestampsOf(table))

\* The claim as stated: on such a table neither driver processes a bar.
C15_UnorderedTimestampsFail ==
    MalformedTable => (~BtStarted /\ bt_pc \in {"init", "raised"} /\ pb_n = 0)

\* C15 as amended: on such a table neither driver fails.  run processes a
\* copy of the rows sorted by timestamp (rows of equal timestamp in either
\* order), recording one equity sample per row, and returns its result; the
\* streaming driver processes the rows in the order given.
C15_UnorderedTimestampsProcessed ==
    MalformedTable =>
        /\ bt_pc # "raised" /\ pb_pc # "raised"
        /\ BtStarted =>
              /\ Len(data) = Len(table)
              /\ \A r \in TableRows \cup ChurnRows :
                    Cardinality({k \in 1..Len(data) : data[k] = r})
                      = Cardinality({k \in 1..Len(table) : table[k] = r})
              /\ NonDecreasing(TimestampsOf(data))
              /\ bt.equity_times = SubSeq(TimestampsOf(data), 1, bt.i)
        /\ bt_pc = "returned" =>
              (bt.i = Len(table) /\ result.equity_curve.times = TimestampsOf(data))
        /\ pb.equity_times = SubSeq(TimestampsOf(table), 1, pb_n)

\* A table given in decreasing order of timestamp: run returned after both
\* rows, in increasing order, and the broker took them in the order given.
C15_Witness ==
    /\ table # NoTable /\ TimestampsOf(table) = <<2, 1>>
    /\ bt_pc = "returned" /\ result.equity_curve.times = <<1, 2>>
    /\ pb_n = 2 /\ pb.equity_times = <<2, 1>>

\* Two rows of one timestamp, processed by run in the order opposite to the
\* table's.
C15_WitnessDuplicates ==
    /\ table # NoTable /\ TimestampsOf(table) = <<1, 1>> /\ table[1] # table[2]
    /\ bt_pc = "returned" /\ data = <<table[2], table[1]>>

\* ------------------------------------------------------------------------
\* C16: when the sizer returns 0 for an attempted entry, the entry is
\* skipped without error: the state stays flat, capital is unchanged, no fee
\* is debited, and the run continues with the next bar.
\* ------------------------------------------------------------------------
EntrySide == IF row.signal = 1 THEN "long" ELSE "short"

\* The size the sizer returns for the entry the batch run attempts on the
\* current row, with the capital of the bar's equity sample; None when
\* compute_sl_tp raises.
BtSizeOffered(capital) ==
    LET sltp == compute_sl_tp(backtest_config, EntrySide, row.close, AtrReading)
    IN  IF Raises(sltp) THEN None
        ELSE calculate_position_size_spot(capital, row.close, sltp.sl_price, risk_config)

\* The same for the streaming driver, at the effective entry price.
PbSizeOffered(capital) ==
    LET entry_price == entry_price_effective(EntrySide, row.close, slippage_pct, spread_pct)
        sltp == compute_sl_tp(backtest_config, EntrySide, entry_price, AtrReading)
    IN  IF Raises(sltp) THEN None
        ELSE calculate_position_size_spot(capital, entry_price, sltp.sl_price, risk_config)

PbFlatAfterCloseCheck ==
    \/ ~PbOpen
    \/ StopHit(PbPos.side, PbPos.stop_price, row)
    \/ TargetHit(PbPos.side, PbPos.tp_price, row)

C16_ZeroSizeSkipsEntry ==
    /\ [][(/\ RunBarStep /\ BtFlatAfterCloseCheck /\ SignalAsksEntry
            /\ BtSizeOffered(Last(bt'.equity_list)) = Zero)
              => /\ bt_pc' = "loop" /\ result' = result
                 /\ bt'.open_trade = None
                 /\ bt'.capital = Last(bt'.equity_list)
                 /\ Len(bt'.trades) = Len(bt.trades) + (IF bt.open_trade = None THEN 0 ELSE 1)
          ]_vars
    /\ [][(/\ OnBarStep /\ pb_pc = "ready" /\ PbFlatAfterCloseCheck /\ SignalAsksEntry
            /\ PbSizeOffered(Last(pb'.equity_values)) = Zero)
              => /\ pb_pc' = "ready" /\ pb_error' = pb_error
                 /\ Symbol \notin DOMAIN pb'.open_positions
                 /\ pb'.capital = Last(pb'.equity_values)
          ]_vars

\* Under the ATR model the first bar asked for an entry and was given size 0
\* (an 'atr' reading of 0), opening nothing and costing nothing; both drivers
\* went on and entered on the second bar.
C16_Witness ==
    /\ AtrMode /\ n = 2 /\ signals[1] = 1
    /\ BtStarted /\ bt_pc = "loop" /\ bt.i = 2
    /\ bt.equity_list = <<backtest_config.initial_capital, backtest_config.initial_capital>>
    /\ bt.open_trade # None /\ bt.open_trade.entry_time = 2
    /\ pb_pc = "ready" /\ pb_n = 2
    /\ pb.equity_values = bt.equity_list
    /\ PbOpen /\ PbPos.entry_time = 2

\* The skipped entry itself: an 'atr' reading of 0, size 0, both drivers flat.
C16_WitnessSkip ==
    /\ AtrMode /\ row # None /\ SignalAsksEntry /\ AtrReading = Zero
    /\ BtStarted /\ bt.i = n /\ bt_pc = "loop" /\ bt.open_trade = None
    /\ BtSizeOffered(bt.capital) = Zero /\ bt.capital = Last(bt.equity_list)
    /\ pb_n = n /\ pb_pc = "ready" /\ ~PbOpen /\ pb.capital = Last(pb.equity_values)

\* ------------------------------------------------------------------------
\* C17: a run starts flat, and a position still open after the last bar is
\* not force-closed: it does not appear in the trade history, contributes
\* nothing to the pnl-based metrics, and the trade count is the number of
\* closed trades only.
\* ------------------------------------------------------------------------
\* The pnl-based metrics, from the closed trades alone.
ClosedWins == {k \in 1..Len(bt.trades) : Lt(Zero, bt.trades[k].pnl)}
ClosedLosses == {k \in 1..Len(bt.trades) : Lt(bt.trades[k].pnl, Zero)}

C17_StartsFlatNoForceClose ==
    /\ (BtStarted /\ bt.i = 0) => (bt.open_trade = None /\ bt.trades = <<>>)
    /\ pb_n = 0 => (~PbOpen /\ pb.history = <<>>)
    /\ bt_pc = "returned" =>
          /\ result.trades = bt.trades
          /\ result.num_trades = Len(bt.trades)
          /\ \A k \in 1..Len(result.trades) :
                result.trades[k].exit_time \in Nat /\ result.trades[k].pnl # None
          /\ bt.open_trade # None =>
                \A k \in 1..Len(result.trades) :
                    result.trades[k].entry_time # bt.open_trade.entry_time
          /\ result.winrate_pct =
                IF Len(bt.trades) = 0 THEN Zero
                ELSE Mul(Rat(Cardinality(ClosedWins), Len(bt.trades)), Q(100))
          /\ (ClosedLosses = {} /\ Len(bt.trades) > 0) => result.profit_factor = NaN
          /\ Len(bt.trades) = 0 => result.profit_factor = Zero

\* run returned with a trade still open, entered on the last bar, and an
\* empty trade history.
C17_Witness ==
    /\ bt_pc = "returned" /\ n = 2
    /\ bt.open_trade # None /\ bt.open_trade.entry_time = 2
    /\ result.num_trades = 0 /\ result.trades = <<>>
    /\ result.winrate_pct = Zero

\* run returned with one closed trade in the history and another still open.
C17_WitnessClosedAndOpen ==
    /\ bt_pc = "returned" /\ bt.open_trade # None
    /\ result.num_trades = 1 /\ Len(result.trades) = 1

\* ------------------------------------------------------------------------
\* C18: each position is charged the fee price * size * fee_pct exactly once
\* at entry and exactly once at exit, always as a debit, so that in both
\* drivers capital after a close equals capital before the entry + raw pnl
\* - entry fee - exit fee.
\* ------------------------------------------------------------------------
RawPnl(direction, entry_price, exit_price, size) ==
    IF direction = "long"
    THEN Mul(Sub(exit_price, entry_price), size)
    ELSE Mul(Sub(entry_price, exit_price), size)

FeeOf(price, size) == Mul(Mul(price, size), backtest_config.fee_pct)

\* Capital before the entry and after the close of a closed trade: the
\* equity samples of its entry bar and of its exit bar.
BtFeesOnce(t) ==
    bt.equity_list[t.exit_time] =
        Sub(Sub(Add(bt.equity_list[t.entry_time],
                    RawPnl(t.direction, t.entry_price, t.exit_price, t.size)),
                FeeOf(t.entry_price, t.size)),
            FeeOf(t.exit_price, t.size))

PbFeesOnce(h) ==
    pb.equity_values[h.exit_time] =
        Sub(Sub(Add(pb.equity_values[h.entry_time],
                    RawPnl(h.side, h.entry_price, h.exit_price, h.size)),
                FeeOf(h.entry_price, h.size)),
            FeeOf(h.exit_price, h.size))

\* The claim as stated, for both drivers.
C18_FeesChargedOnceEach ==
    /\ BtStarted => \A k \in 1..Len(bt.trades) : BtFeesOnce(bt.trades[k])
    /\ \A k \in 1..Len(pb.history) : PbFeesOnce(pb.history[k])

\* What holds: the batch driver charges each fee once, the streaming driver
\* charges the entry fee twice.
C18_BatchOnceStreamingEntryTwice ==
    /\ BtStarted => \A k \in 1..Len(bt.trades) : BtFeesOnce(bt.trades[k])
    /\ \A k \in 1..Len(pb.history) :
          LET h == pb.history[k]
          IN  pb.equity_values[h.exit_time] =
                  Sub(Sub(Add(pb.equity_values[h.entry_time],
                              RawPnl(h.side, h.entry_price, h.exit_price, h.size)),
                          Mul(Q(2), FeeOf(h.entry_price, h.size))),
                      FeeOf(h.exit_price, h.size))

\* Both drivers closed a trade under a fee.
C18_WitnessFee ==
    /\ Lt(Zero, backtest_config.fee_pct)
    /\ BtStarted /\ Len(bt.trades) = 1 /\ Len(pb.history) = 1

\* ------------------------------------------------------------------------
\* C19: the entry fee is debited from capital at the moment the position is
\* opened, and the pnl reported on a closed trade is raw pnl minus the
\* exit-side fee only (it does not include the entry fee), in both drivers.
\* ------------------------------------------------------------------------
\* While a position is open, capital is the equity sample of its entry bar
\* less the entry fee.
EntryFeeDebitedAtOpen ==
    /\ (BtStarted /\ bt.open_trade # None) =>
          bt.capital = Sub(bt.equity_list[bt.open_trade.entry_time],
                           FeeOf(bt.open_trade.entry_price, bt.open_trade.size))
    /\ PbOpen =>
          pb.capital = Sub(pb.equity_values[PbPos.entry_time],
                           FeeOf(PbPos.entry_price, PbPos.size))

BtPnlNetsExitFeeOnly ==
    BtStarted => \A k \in 1..Len(bt.trades) :
        LET t == bt.trades[k]
        IN  t.pnl = Sub(RawPnl(t.direction, t.entry_price, t.exit_price, t.size),
                        FeeOf(t.exit_price, t.size))

\* The claim as stated, for both drivers.
C19_PnlNetsExitFeeOnly ==
    /\ EntryFeeDebitedAtOpen
    /\ BtPnlNetsExitFeeOnly
    /\ \A k \in 1..Len(pb.history) :
          LET h == pb.history[k]
          IN  h.pnl = Sub(RawPnl(h.side, h.entry_price, h.exit_price, h.size),
                          FeeOf(h.exit_price, h.size))

\* What holds: both drivers debit the entry fee at the open; the batch pnl
\* nets the exit fee only, the streaming pnl nets the entry fee as well.
C19_StreamingPnlNetsBothFees ==
    /\ EntryFeeDebitedAtOpen
    /\ BtPnlNetsExitFeeOnly
    /\ \A k \in 1..Len(pb.history) :
          LET h == pb.history[k]
          IN  h.pnl = Sub(Sub(RawPnl(h.side, h.entry_price, h.exit_price, h.size),
                              FeeOf(h.entry_price, h.size)),
                          FeeOf(h.exit_price, h.size))

\* Under a fee, a position is open in both drivers with the fee debited.
C19_WitnessOpen ==
    /\ Lt(Zero, backtest_config.fee_pct)
    /\ BtStarted /\ bt.open_trade # None /\ PbOpen
    /\ Lt(bt.capital, Last(bt.equity_list)) /\ pb.capital = bt.capital

\* ------------------------------------------------------------------------
\* C20: profit_factor is NaN exactly when the closed-trade list contains no
\* losing trade (pnl < 0), including the case of zero trades; otherwise it
\* is sum(positive pnl) / |sum(negative pnl)|.
\* ------------------------------------------------------------------------
MetricsReturned == metrics_call # None /\ metrics_call.result # None

\* The sum of the pnl of the trades of a list at the indices K.
RECURSIVE PnlSum(_, _)
PnlSum(trades, K) ==
    IF K = {} THEN Zero
    ELSE LET k == CHOOSE x \in K : TRUE
         IN  Add(trades[k].pnl, PnlSum(trades, K \ {k}))

Winning(trades) == {k \in 1..Len(trades) : Lt(Zero, trades[k].pnl)}
Losing(trades) == {k \in 1..Len(trades) : Lt(trades[k].pnl, Zero)}

ProfitLossRatio(trades) ==
    Div(PnlSum(trades, Winning(trades)), AbsR(PnlSum(trades, Losing(trades))))

\* The claim as stated.
C20_ProfitFactorNaNIffNoLoss ==
    MetricsReturned =>
        LET trades == metrics_call.trades
            pf == metrics_call.result.profit_factor
        IN  /\ (pf = NaN) <=> (Losing(trades) = {})
            /\ Losing(trades) # {} => pf = ProfitLossRatio(trades)

\* C20 as amended: profit_factor is 0 when there is no closed trade, NaN
\* exactly when there is at least one closed trade and none of them is
\* losing, and otherwise sum(positive pnl) / |sum(negative pnl)|.
C20_ProfitFactorZeroWhenNoTrades ==
    MetricsReturned =>
        LET trades == metrics_call.trades
            pf == metrics_call.result.profit_factor
        IN  /\ Len(trades) = 0 => pf = Zero
            /\ (pf = NaN) <=> (Len(trades) > 0 /\ Losing(trades) = {})
            /\ Losing(trades) # {} => pf = ProfitLossRatio(trades)

\* Gains of 10 and 30 and a loss of 20: profit factor 2.
C20_Witness ==
    /\ MetricsReturned /\ Len(metrics_call.trades) = 3
    /\ Cardinality(Winning(metrics_call.trades)) = 2
    /\ Cardinality(Losing(metrics_call.trades)) = 1
    /\ metrics_call.result.profit_factor = Q(2)

\* Trades, none of them losing: NaN.  No trade: 0.
C20_WitnessNaN ==
    /\ MetricsReturned /\ Len(metrics_call.trades) = 2
    /\ Losing(metrics_call.trades) = {}
    /\ metrics_call.result.profit_factor = NaN

C20_WitnessNoTrades ==
    /\ MetricsReturned /\ metrics_call.trades = <<>>
    /\ metrics_call.result.profit_factor = Zero

\* ------------------------------------------------------------------------
\* C21: max_drawdown_pct is never positive
\* ------------------------------------------------------------------------

\* The running maximum of the samples up to the k-th.
RECURSIVE RunningMax(_, _)
RunningMax(values, k) ==
    IF k = 1 THEN values[1]
    ELSE LET m == RunningMax(values, k - 1)
         IN  IF Le(values[k], m) THEN m ELSE values[k]

\* (equity - running maximum so far) / running maximum so far * 100 at sample k.
DrawdownAt(values, k) ==
    Mul(Div(Sub(values[k], RunningMax(values, k)), RunningMax(values, k)), Q(100))

\* C21: with a positive first equity sample (the initial capital),
\* max_drawdown_pct is the minimum over the samples of
\* (equity - running maximum) / running maximum * 100, and it is <= 0, also
\* when the equity falls to zero or below.
C21_MaxDrawdownNeverPositive ==
    MetricsReturned =>
        LET values == metrics_call.equity_curve.values
            mdd == metrics_call.result.max_drawdown_pct
        IN  /\ Lt(Zero, values[1])
            /\ Le(mdd, Zero)
            /\ \A k \in 1..Len(values) : Le(mdd, DrawdownAt(values, k))
            /\ \E k \in 1..Len(values) : mdd = DrawdownAt(values, k)

\* The capital of 1000 is lost whole and then 20 more: the equity ends below
\* zero and the drawdown is -102 %.
C21_Witness ==
    /\ MetricsReturned
    /\ \E k \in 1..Len(metrics_call.equity_curve.values) :
           Le(metrics_call.equity_curve.values[k], Zero)
    /\ Lt(Last(metrics_call.equity_curve.values), Zero)
    /\ metrics_call.result.max_drawdown_pct = Q(-102)

\* No drawdown at all: the equity never fell.
C21_WitnessZero ==
    /\ MetricsReturned /\ Len(metrics_call.trades) = 2
    /\ metrics_call.result.max_drawdown_pct = Zero
    /\ metrics_call.result.total_return_pct = Q(4)

\* ------------------------------------------------------------------------
\* C22: slippage and spread move the fills against the holder
\* ------------------------------------------------------------------------

\* on_bar opened a position on this step.
PbOpened == PbOpen' /\ (~PbOpen \/ Len(pb'.history) > Len(pb.history))

\* on_bar closed the open position on this step.
PbClosed == Len(pb'.history) = Len(pb.history) + 1

\* The level the closed position left at: its stop if hit, else its target.
PbRawExit == IF StopHit(PbPos.side, PbPos.stop_price, row)
             THEN PbPos.stop_price ELSE PbPos.tp_price

\* p moved up, or down, by the fraction pct.
MovedUp(p, pct) == Mul(p, Add(One, pct))
MovedDown(p, pct) == Mul(p, Sub(One, pct))

\* C22: in the streaming driver the entry fills at the close moved against
\* the holder by half the spread and by the slippage (long up, short down),
\* and the exit fills at the stop or target moved against the holder by the
\* slippage only (long down, short up); the spread never moves the exit.
C22_SlippageAndSpreadAgainstHolder ==
    [][OnBarStep =>
        /\ PbOpened =>
             LET pos == pb'.open_positions[Symbol]
                 half == Div(spread_pct, Q(2))
             IN  IF pos.side = "long"
                 THEN /\ pos.entry_price = MovedUp(MovedUp(row.close, half), slippage_pct)
                      /\ Le(row.close, pos.entry_price)
                      /\ ~NoCosts => Lt(row.close, pos.entry_price)
                 ELSE /\ pos.entry_price = MovedDown(MovedDown(row.close, half), slippage_pct)
                      /\ Le(pos.entry_price, row.close)
                      /\ ~NoCosts => Lt(pos.entry_price, row.close)
        /\ PbClosed =>
             LET trade == Last(pb'.history)
             IN  IF PbPos.side = "long"
                 THEN /\ trade.exit_price = MovedDown(PbRawExit, slippage_pct)
                      /\ Le(trade.exit_price, PbRawExit)
                 ELSE /\ trade.exit_price = MovedUp(PbRawExit, slippage_pct)
                      /\ Le(PbRawExit, trade.exit_price)]_vars

\* With slippage 10 % and spread 20 %, a long entered at a close of 100 fills
\* at 121 and leaves at its stop of 108.9 less 10 %; a short fills at 81.
C22_Witness ==
    /\ slippage_pct = Rat(1, 10) /\ spread_pct = Rat(1, 5)
    /\ pb.history # <<>>
    /\ Last(pb.history).side = "long"
    /\ Last(pb.history).entry_price = Q(121)
    /\ Last(pb.history).reason = "SL"
    /\ Last(pb.history).exit_price = Rat(9801, 100)

C22_WitnessShort ==
    /\ slippage_pct = Rat(1, 10) /\ spread_pct = Rat(1, 5)
    /\ PbOpen /\ PbPos.side = "short" /\ PbPos.entry_price = Q(81)

\* Spread alone: the entry moves by 10 %, the exit is the level itself.
C22_WitnessSpreadOnly ==
    /\ slippage_pct = Zero /\ spread_pct = Rat(1, 5)
    /\ pb.history # <<>>
    /\ Last(pb.history).side = "long"
    /\ Last(pb.history).entry_price = Q(110)
    /\ Last(pb.history).exit_price \in {Q(99), Q(132)}

\* ------------------------------------------------------------------------
\* C23: closed trades and equity samples are append-only, and the trade
\* history is ordered by exit time
\* ------------------------------------------------------------------------

\* s is t, or t without its last elements.
IsPrefix(s, t) == Len(s) <= Len(t) /\ s = SubSeq(t, 1, Len(s))

ExitTimes(trades) == [k \in 1..Len(trades) |-> trades[k].exit_time]

\* No step modifies or removes a closed trade or an equity sample of either
\* driver, and a step adds at most one of each.
AppendOnly ==
    [][/\ BtStarted =>
            /\ IsPrefix(bt.trades, bt'.trades)
            /\ Len(bt'.trades) <= Len(bt.trades) + 1
            /\ IsPrefix(bt.equity_list, bt'.equity_list)
            /\ IsPrefix(bt.equity_times, bt'.equity_times)
            /\ Len(bt'.equity_list) <= Len(bt.equity_list) + 1
       /\ IsPrefix(pb.history, pb'.history)
       /\ Len(pb'.history) <= Len(pb.history) + 1
       /\ IsPrefix(pb.equity_values, pb'.equity_values)
       /\ IsPrefix(pb.equity_times, pb'.equity_times)
       /\ Len(pb'.equity_values) <= Len(pb.equity_values) + 1
       /\ bt_pc' = "returned" =>
            /\ result'.trades = bt'.trades
            /\ result'.equity_curve.values = bt'.equity_list]_vars

\* The claim as stated: append-only, and both trade histories in
\* non-decreasing order of exit time.
C23_AppendOnlyOrderedByExitTime ==
    /\ AppendOnly
    /\ [](BtStarted => NonDecreasing(ExitTimes(bt.trades)))
    /\ [](NonDecreasing(ExitTimes(pb.history)))

\* C23 as amended: closed trades and equity samples are append-only in both
\* drivers.  The batch history is in non-decreasing order of exit time (run
\* sorts the table).  The streaming history is in the order in which the
\* bars were handed to on_bar, each trade stamped with the timestamp of the
\* bar that closed it: it is in non-decreasing order of exit time when the
\* bars are handed over in non-decreasing order of timestamp.
C23_AppendOnlyInProcessingOrder ==
    /\ AppendOnly
    /\ [](BtStarted => NonDecreasing(ExitTimes(bt.trades)))
    /\ [][(pb_n' = pb_n + 1 /\ Len(pb'.history) = Len(pb.history) + 1) =>
             Last(pb'.history).exit_time = table[pb_n + 1].timestamp]_vars
    /\ [](NonDecreasing(TimestampsOf(table)) => NonDecreasing(ExitTimes(pb.history)))

\* Both drivers closed two trades on a table in increasing order of
\* timestamp, and hold the first trade unchanged after the second.
C23_Witness ==
    /\ table # NoTable /\ StrictlyIncreasing(TimestampsOf(table))
    /\ bt_pc = "returned" /\ Len(bt.trades) = 2 /\ Len(bt.equity_list) = Len(table)
    /\ ExitTimes(bt.trades) = <<2, 3>>
    /\ pb_n = Len(table) /\ Len(pb.history) = 2
    /\ ExitTimes(pb.history) = <<2, 3>>

\* Bars handed over with timestamps 1, 2, 1: the streaming history has exit
\* times 2, 1 and the batch history 1, 2.
C23_WitnessOutOfOrder ==
    /\ table # NoTable /\ TimestampsOf(table) = <<1, 2, 1>>
    /\ pb_n = 3 /\ ExitTimes(pb.history) = <<2, 1>>
    /\ bt_pc = "returned" /\ ExitTimes(bt.trades) = <<1, 2>>

\* ------------------------------------------------------------------------
\* C24: a run mutates neither the bar table nor the configurations
\* ------------------------------------------------------------------------

\* C24: no step of Backtester.run (or of the streaming driver) changes the
\* caller's bar table or the configuration objects: when run has returned or
\* raised, the table has the rows, the row order and the values it was
\* handed over with.
C24_InputsNeverMutated ==
    [][/\ table' = table
       /\ backtest_config' = backtest_config
       /\ risk_config' = risk_config]_vars

\* run returned after working on a sorted copy that differs from the table.
C24_Witness ==
    /\ table # NoTable /\ bt_pc = "returned"
    /\ TimestampsOf(table) = <<2, 1>> /\ TimestampsOf(data) = <<1, 2>>
    /\ Len(result.equity_curve.values) = 2

\* run raised on its second row.
C24_WitnessRaised ==
    /\ table # NoTable /\ bt_pc = "raised" /\ bt.i = 2
    /\ result = [raised |-> ErrNoExitModel]
    /\ data = table

\* ------------------------------------------------------------------------
\* C25: combinations evaluated concurrently give what they give alone
\* ------------------------------------------------------------------------

\* The locals of run after i iterations over data with nothing else running,
\* or what the iteration that raised left.
RECURSIVE AloneLocals(_, _, _)
AloneLocals(cfg, df, i) ==
    IF i = 0 THEN run_locals(cfg)
    ELSE LET prev == AloneLocals(cfg, df, i - 1)
         IN  IF Raises(prev) THEN prev
             ELSE run_iteration(prev, df[i], columns, cfg, risk_config)

\* What run gives on data with nothing else running: its result, or the error.
RunAlone(cfg, df) ==
    LET last == AloneLocals(cfg, df, Len(df))
    IN  IF Raises(last) THEN [raised |-> last.raised] ELSE run_result(last)

SweepJobs == DOMAIN sweep.param_grid
JobCfg(k) == evaluate_bt_cfg(sweep.param_grid[k])

C25_WitnessCollected ==
    /\ sweep # None /\ sweep.main_pc = "done" /\ Len(sweep.rows) = 2
    /\ sweep.rows[1].sl_pct = sweep.param_grid[2].sl_pct
    /\ sweep.rows[2].sl_pct = sweep.param_grid[1].sl_pct
    /\ sweep.rows[1].sl_pct # sweep.rows[2].sl_pct

\* ------------------------------------------------------------------------
\* C26: a failed run in a sweep
\* ------------------------------------------------------------------------

\* The combinations whose evaluation raised.
FailedJobs == {k \in SweepJobs : sweep.jobs[k].pc = "raised"}

\* C26: a run that fails is recorded as no result for its combination and
\* the sweep goes on: the main process never ends on the error, and when it
\* is done it holds a row for every combination that returned one.
C26_FailedRunIsNoResult ==
    /\ sweep.main_pc # "raised"
    /\ sweep.main_pc = "done" =>
          \A k \in SweepJobs \ FailedJobs :
              sweep.jobs[k].pc = "returned"
              /\ (sweep.jobs[k].ret # None =>
                     \E m \in 1..Len(sweep.rows) : sweep.rows[m] = sweep.jobs[k].ret)

\* What the sweep does instead: the error of a failed run ends the main
\* process when it is received, the rows of the other combinations are not
\* written out, and a sweep that is done had no failed run.
C26_FailedRunEndsSweep ==
    /\ [](sweep.main_pc = "done" => FailedJobs = {})
    /\ [](sweep.main_pc = "raised" => FailedJobs # {})
    /\ [][\A k \in SweepJobs :
            (sweep.jobs[k].pc = "raised" /\ k \notin sweep.received
               /\ sweep'.received # sweep.received)
              => k \notin sweep'.received]_vars
    /\ [][sweep.main_pc = "raised" => sweep' = sweep]_vars

\* The first combination has no exit model and raised on the first bar; the
\* second returned a row that the main process had collected before it
\* received the error.
C26_WitnessRowLost ==
    /\ sweep # None /\ sweep.main_pc = "raised"
    /\ sweep.jobs[1].pc = "raised" /\ sweep.jobs[1].result = [raised |-> ErrNoExitModel]
    /\ sweep.jobs[2].pc = "returned" /\ sweep.rows = <<sweep.jobs[2].ret>>

\* ------------------------------------------------------------------------
\* C27: the same configuration on the same bars gives the same result
\* ------------------------------------------------------------------------

\* Two evaluations of one combination over the one bar table.
Replays == {kj \in SweepJobs \X SweepJobs :
               kj[1] < kj[2] /\ sweep.param_grid[kj[1]] = sweep.param_grid[kj[2]]}

C27_WitnessInSequence ==
    /\ sweep # None /\ sweep.param_grid[1] = sweep.param_grid[2]
    /\ sweep.jobs[1].pc = "returned" /\ sweep.jobs[1].result.num_trades = 1
    /\ sweep.jobs[2].pc = "queued"

\* ---------------------------------------------------------------------------
\* C28
\* ---------------------------------------------------------------------------

\* The five metric values of a result.
FiveValues(res) ==
    <<res.total_return_pct, res.max_drawdown_pct, res.winrate_pct,
      res.profit_factor, res.num_trades>>

MetricsRecomputed == MetricsReturned /\ metrics_call.again # None

C28_WitnessNoLoss ==
    /\ MetricsRecomputed
    /\ Len(metrics_call.trades) > 0
    /\ metrics_call.result.profit_factor \in {NaN, Inf}

\* ---------------------------------------------------------------------------
\* C29
\* ---------------------------------------------------------------------------

\* Stop and target are the ATR levels of the entry price on the current row.
LevelsFromAtr(direction, entry_price, stop_price, tp_price) ==
    /\ AtrReading \notin {None, NaN}
    /\ backtest_config.atr_mult_tp # None
    /\ IF direction = "long"
       THEN /\ stop_price = Sub(entry_price, Mul(AtrReading, backtest_config.atr_mult_sl))
            /\ tp_price = Add(entry_price, Mul(AtrReading, backtest_config.atr_mult_tp))
       ELSE /\ stop_price = Add(entry_price, Mul(AtrReading, backtest_config.atr_mult_sl))
            /\ tp_price = Sub(entry_price, Mul(AtrReading, backtest_config.atr_mult_tp))

\* Stop and target are the fixed-percent levels of the entry price.
LevelsFromPct(direction, entry_price, stop_price, tp_price) ==
    /\ backtest_config.sl_pct # None /\ backtest_config.tp_rr # None
    /\ IF direction = "long"
       THEN /\ stop_price = MovedDown(entry_price, backtest_config.sl_pct)
            /\ tp_price = MovedUp(entry_price,
                                  Mul(backtest_config.sl_pct, backtest_config.tp_rr))
       ELSE /\ stop_price = MovedUp(entry_price, backtest_config.sl_pct)
            /\ tp_price = MovedDown(entry_price,
                                    Mul(backtest_config.sl_pct, backtest_config.tp_rr))

\* The batch run opened a trade on this step.
BtOpenedTrade == RunBarStep /\ bt'.open_trade # None /\ BtFlatAfterCloseCheck

\* C29: the exit model is selected as the docstring of compute_sl_tp states:
\* under a configuration with atr_mult_sl set, every position either driver
\* opens has its stop and target computed from the ATR reading of the bar,
\* never from sl_pct and tp_rr.
C29_AtrMultSlSelectsAtrModel ==
    /\ [][(backtest_config.atr_mult_sl # None /\ BtOpenedTrade) =>
             LevelsFromAtr(bt'.open_trade.direction, bt'.open_trade.entry_price,
                           bt'.open_trade.stop_price, bt'.open_trade.tp_price)]_vars
    /\ [][(backtest_config.atr_mult_sl # None /\ PbOpened) =>
             LevelsFromAtr(pb'.open_positions[Symbol].side,
                           pb'.open_positions[Symbol].entry_price,
                           pb'.open_positions[Symbol].stop_price,
                           pb'.open_positions[Symbol].tp_price)]_vars

\* C29, what the code selects on: the ATR model when atr_mult_sl and
\* atr_mult_tp are both set, the fixed-percent model otherwise, whatever
\* atr_mult_sl is.
C29_BothMultipliersSelectAtrModel ==
    /\ [][BtOpenedTrade =>
             IF AtrMode
             THEN LevelsFromAtr(bt'.open_trade.direction, bt'.open_trade.entry_price,
                                bt'.open_trade.stop_price, bt'.open_trade.tp_price)
             ELSE LevelsFromPct(bt'.open_trade.direction, bt'.open_trade.entry_price,
                                bt'.open_trade.stop_price, bt'.open_trade.tp_price)]_vars
    /\ [][PbOpened =>
             IF AtrMode
             THEN LevelsFromAtr(pb'.open_positions[Symbol].side,
                                pb'.open_positions[Symbol].entry_price,
                                pb'.open_positions[Symbol].stop_price,
                                pb'.open_positions[Symbol].tp_price)
             ELSE LevelsFromPct(pb'.open_positions[Symbol].side,
                                pb'.open_positions[Symbol].entry_price,
                                pb'.open_positions[Symbol].stop_price,
                                pb'.open_positions[Symbol].tp_price)]_vars

\* atr_mult_sl is set, atr_mult_tp is not, and both drivers hold a long
\* entered at 100 with the fixed-percent stop 90 and target 120.
C29_WitnessSilentFixedPercent ==
    /\ backtest_config.atr_mult_sl # None /\ backtest_config.atr_mult_tp = None
    /\ BtStarted /\ bt.open_trade # None
    /\ bt.open_trade.entry_price = Q(100)
    /\ bt.open_trade.stop_price = Q(90) /\ bt.open_trade.tp_price = Q(120)
    /\ PbOpen /\ PbPos.entry_price = Q(100)
    /\ PbPos.stop_price = Q(90) /\ PbPos.tp_price = Q(120)

\* Both multipliers set: both drivers hold a long entered at 100 with the ATR
\* stop 90 and target 120 of a reading of 10.
C29_WitnessAtr ==
    /\ AtrMode /\ NoCosts
    /\ BtStarted /\ bt.open_trade # None /\ bt.open_trade.direction = "long"
    /\ bt.open_trade.stop_price = Q(90) /\ bt.open_trade.tp_price = Q(120)
    /\ PbOpen /\ PbPos.side = "long"
    /\ PbPos.stop_price = Q(90) /\ PbPos.tp_price = Q(120)

\* ---------------------------------------------------------------------------
\* C30
\* ---------------------------------------------------------------------------

\* The bar hits neither the stop nor the target of the position.
NoLevelHit(direction, stop_price, tp_price, bar) ==
    ~StopHit(direction, stop_price, bar) /\ ~TargetHit(direction, tp_price, bar)

\* C30: while a position is open and the bar hits neither its stop nor its
\* target, the bar's signal (1, -1 or 0) has no effect in either driver: the
\* position (direction, entry price, size, stop and target), the capital and
\* the trade history are unchanged by the bar, so there is no reversal, no
\* scaling and no second entry.
C30_SignalIgnoredWhileOpen ==
    [][ /\ (/\ RunBarStep /\ bt.open_trade # None
            /\ NoLevelHit(bt.open_trade.direction, bt.open_trade.stop_price,
                          bt.open_trade.tp_price, row))
              => /\ bt'.open_trade = bt.open_trade
                 /\ bt'.capital = bt.capital
                 /\ bt'.trades = bt.trades
                 /\ bt_pc' = "loop"
        /\ (/\ OnBarStep /\ PbOpen
            /\ NoLevelHit(PbPos.side, PbPos.stop_price, PbPos.tp_price, row))
              => /\ pb'.open_positions = pb.open_positions
                 /\ pb'.capital = pb.capital
                 /\ pb'.history = pb.history
                 /\ pb_pc' = "ready"
      ]_vars

\* Both drivers still hold the long of the first bar, and nothing else, after
\* a bar that hit neither level and carried the signal -1 with shorts allowed.
C30_Witness ==
    /\ n = 2 /\ row.signal = -1 /\ backtest_config.allow_short
    /\ BtStarted /\ bt.i = 2 /\ bt.open_trade # None
    /\ bt.open_trade.direction = "long" /\ bt.open_trade.entry_time = 1
    /\ bt.trades = <<>>
    /\ pb_n = 2 /\ PbOpen /\ PbPos.side = "long" /\ PbPos.entry_time = 1
    /\ pb.history = <<>>

\* The same for a short held through a bar with the signal 1.
C30_WitnessShortHeld ==
    /\ n = 2 /\ row.signal = 1
    /\ BtStarted /\ bt.i = 2 /\ bt.open_trade # None
    /\ bt.open_trade.direction = "short" /\ bt.open_trade.entry_time = 1
    /\ bt.trades = <<>>
    /\ pb_n = 2 /\ PbOpen /\ PbPos.side = "short" /\ PbPos.entry_time = 1
    /\ pb.history = <<>>

====
